---- MODULE Spec2Model ----
(***************************************************************************)
(* Model of the request side of ruma's endpoint marshaling macro           *)
(* (ruma-api-macros/src/api/request.rs): the code that Request::expand     *)
(* generates for try_into_http_request and try_from_http_request, written  *)
(* as operators driven by the endpoint's metadata and field list.          *)
(*                                                                         *)
(* Strings and byte vectors are sequences of byte values (0..255).  A JSON *)
(* text is the sequence of its lexical tokens; a zero-length body is the   *)
(* empty sequence.                                                         *)
(***************************************************************************)
EXTENDS Integers, Sequences, FiniteSets, TLC

VARIABLES
    endpoint,   \* the endpoint (metadata and request fields) the calls are made on
    pc,         \* "declared" | "rejected" | "idle" | "encoded" | "failed" |
                \* "received" | "decoded"
    impls,      \* the traits the expansion implements for the request type
    origin,     \* "none" | "client" (wire built by try_into_http_request) | "network"
    self,       \* the typed request handed to try_into_http_request
    token,      \* the access_token argument of try_into_http_request
    baseUrl,    \* the base_url argument of try_into_http_request
    wire,       \* the http::Request<Vec<u8>> in flight
    encRes,     \* result of try_into_http_request
    decRes,     \* result of try_from_http_request
    calls,      \* the calls in progress at once on the endpoint, each with what it owns
    conv        \* a value conversion outside the macro: its input and its result

vars ==
    <<endpoint, pc, impls, origin, self, token, baseUrl, wire, encRes, decRes, calls, conv>>

(***************************************************************************)
(* Bytes and strings                                                       *)
(***************************************************************************)

\* Option<T>
Some(v) == [some |-> TRUE, v |-> v]
None == [some |-> FALSE, v |-> <<>>]

\* index of the first occurrence of byte b in s at or after position from, 0 if none
\* (str::find)
Find(s, b, from) ==
    IF \E i \in from..Len(s) : s[i] = b
    THEN CHOOSE i \in from..Len(s) : s[i] = b /\ \A j \in from..(i - 1) : s[j] # b
    ELSE 0

\* str::split(sep): the pieces between separators, always at least one piece
RECURSIVE Split(_, _)
Split(s, sep) ==
    LET i == Find(s, sep, 1)
    IN IF i = 0 THEN <<s>>
       ELSE <<SubSeq(s, 1, i - 1)>> \o Split(SubSeq(s, i + 1, Len(s)), sep)

StartsWith(s, b) == Len(s) >= 1 /\ s[1] = b

\* number of occurrences of byte b in s
RECURSIVE CountByte(_, _)
CountByte(s, b) ==
    IF s = <<>> THEN 0
    ELSE (IF Head(s) = b THEN 1 ELSE 0) + CountByte(Tail(s), b)

IsAlphanumeric(b) == b \in ((48..57) \cup (65..90) \cup (97..122))

IsHexDigit(b) == b \in ((48..57) \cup (65..70) \cup (97..102))

HexUpper(n) == IF n < 10 THEN 48 + n ELSE 55 + n

HexVal(b) == IF b <= 57 THEN b - 48 ELSE IF b <= 70 THEN b - 55 ELSE b - 87

\* A weaker encode set that leaves '/', ':' and '%' as they are.
utf8_percent_encode_Controls(s) ==
    LET Enc(b) == IF b > 32 /\ b < 127 THEN <<b>>
                  ELSE <<37, HexUpper(b \div 16), HexUpper(b % 16)>>
        F[i \in 0..Len(s)] == IF i = 0 THEN <<>> ELSE F[i - 1] \o Enc(s[i])
    IN F[Len(s)]

\* percent_encoding::utf8_percent_encode(s, NON_ALPHANUMERIC)
utf8_percent_encode(s) ==
    LET Enc(b) == IF IsAlphanumeric(b) THEN <<b>>
                  ELSE <<37, HexUpper(b \div 16), HexUpper(b % 16)>>
        F[i \in 0..Len(s)] == IF i = 0 THEN <<>> ELSE F[i - 1] \o Enc(s[i])
    IN F[Len(s)]

\* percent_encoding::percent_decode(s): %XY with two hex digits becomes one byte,
\* every other byte (a lone '%' too) is copied
RECURSIVE percent_decode(_)
percent_decode(s) ==
    IF s = <<>> THEN <<>>
    ELSE IF s[1] = 37 /\ Len(s) >= 3 /\ IsHexDigit(s[2]) /\ IsHexDigit(s[3])
         THEN <<16 * HexVal(s[2]) + HexVal(s[3])>> \o percent_decode(SubSeq(s, 4, Len(s)))
         ELSE <<s[1]>> \o percent_decode(Tail(s))

IsCont(b) == b \in 128..191

\* whether s is well-formed UTF-8 (what PercentDecode::decode_utf8 and
\* str::from_utf8 accept)
RECURSIVE IsUtf8(_)
IsUtf8(s) ==
    IF s = <<>> THEN TRUE
    ELSE LET b == s[1]
             n == Len(s)
         IN IF b < 128 THEN IsUtf8(Tail(s))
            ELSE IF b \in 194..223
                 THEN n >= 2 /\ IsCont(s[2]) /\ IsUtf8(SubSeq(s, 3, n))
            ELSE IF b \in 224..239
                 THEN /\ n >= 3
                      /\ IsCont(s[2]) /\ IsCont(s[3])
                      /\ (b = 224 => s[2] >= 160)
                      /\ (b = 237 => s[2] <= 159)
                      /\ IsUtf8(SubSeq(s, 4, n))
            ELSE IF b \in 240..244
                 THEN /\ n >= 4
                      /\ IsCont(s[2]) /\ IsCont(s[3]) /\ IsCont(s[4])
                      /\ (b = 240 => s[2] >= 144)
                      /\ (b = 244 => s[2] <= 143)
                      /\ IsUtf8(SubSeq(s, 5, n))
            ELSE FALSE

\* decimal digits of a natural number (u64's Display)
RECURSIVE Decimal(_)
Decimal(n) == IF n < 10 THEN <<48 + n>> ELSE Decimal(n \div 10) \o <<48 + (n % 10)>>

IsDigits(s) == Len(s) >= 1 /\ \A i \in 1..Len(s) : s[i] \in 48..57

RECURSIVE DigitsValue(_)
DigitsValue(s) ==
    IF s = <<>> THEN 0 ELSE 10 * DigitsValue(SubSeq(s, 1, Len(s) - 1)) + (s[Len(s)] - 48)

(***************************************************************************)
(* Endpoints: Metadata and the request's fields                            *)
(***************************************************************************)

\* RequestField (lines 767-788): the field's identifier, its RequestFieldKind, its
\* type, and for a Header field the header name
Field(name, kind, ty, header) == [name |-> name, kind |-> kind, ty |-> ty, header |-> header]

RequestFieldKind == {"Body", "Header", "NewtypeBody", "NewtypeRawBody", "Path", "Query", "QueryMap"}

\* field identifiers, as the bytes of their names
f_x == <<120>>
f_y == <<121>>
f_q == <<113>>
f_r == <<114>>
f_h == <<104>>
f_o == <<111>>
f_b == <<98>>
f_c == <<99>>
f_m == <<109>>
f_w == <<119>>
f_n == <<110>>
f_t == <<116>>

Endpoint(name, method, path, authentication, fields) ==
    [name |-> name, method |-> method, path |-> path,
     authentication |-> authentication, fields |-> fields]

\* The endpoint definitions the model is run on: one per shape of request.
\*   path "/a/:x/b/:y", "/m/:x", "/s"
Endpoints ==
    << Endpoint("path_only", "GET", <<47, 97, 47, 58, 120, 47, 98, 47, 58, 121>>, "None",
                << Field(f_x, "Path", "String", ""), Field(f_y, "Path", "UInt", "") >>),
       Endpoint("path_reordered", "GET", <<47, 97, 47, 58, 120, 47, 98, 47, 58, 121>>, "None",
                << Field(f_y, "Path", "UInt", ""), Field(f_x, "Path", "String", "") >>),
       Endpoint("query_only", "GET", <<47, 115>>, "None",
                << Field(f_q, "Query", "String", ""), Field(f_r, "Query", "OptString", "") >>),
       Endpoint("header_only", "GET", <<47, 115>>, "None",
                << Field(f_h, "Header", "String", "LOCATION"),
                   Field(f_o, "Header", "OptString", "USER_AGENT") >>),
       Endpoint("body_only", "POST", <<47, 115>>, "None",
                << Field(f_b, "Body", "String", ""), Field(f_c, "Body", "OptString", "") >>),
       Endpoint("body_optional", "POST", <<47, 115>>, "ServerSignatures",
                << Field(f_c, "Body", "OptString", "") >>),
       Endpoint("mixed", "PUT", <<47, 109, 47, 58, 120>>, "AccessToken",
                << Field(f_c, "Body", "OptString", ""), Field(f_o, "Header", "OptString", "USER_AGENT"),
                   Field(f_x, "Path", "String", ""), Field(f_r, "Query", "OptString", "") >>),
       Endpoint("map_query", "GET", <<47, 115>>, "None",
                << Field(f_m, "QueryMap", "Pairs", "") >>),
       Endpoint("raw_body", "POST", <<47, 115>>, "None",
                << Field(f_w, "NewtypeRawBody", "Bytes", "") >>),
       Endpoint("newtype_body", "POST", <<47, 115>>, "AccessToken",
                << Field(f_n, "NewtypeBody", "String", "") >>),
       Endpoint("upload", "POST", <<47, 115>>, "None",
                << Field(f_t, "Header", "OptString", "CONTENT_TYPE"),
                   Field(f_w, "NewtypeRawBody", "Bytes", "") >>) >>

fields_of_kind(ep, kind) == SelectSeq(ep.fields, LAMBDA f : f.kind = kind)

has_body_fields(ep) == \E i \in 1..Len(ep.fields) : ep.fields[i].kind = "Body"

has_header_fields(ep) == \E i \in 1..Len(ep.fields) : ep.fields[i].kind = "Header"

has_path_fields(ep) == \E i \in 1..Len(ep.fields) : ep.fields[i].kind = "Path"

has_query_fields(ep) == \E i \in 1..Len(ep.fields) : ep.fields[i].kind = "Query"

header_fields(ep) == fields_of_kind(ep, "Header")

path_field_count(ep) == Len(fields_of_kind(ep, "Path"))

\* Option<&Field>: the first field of the kind (find_map)
first_of_kind(ep, kind) ==
    LET fs == fields_of_kind(ep, kind)
    IN IF fs = <<>> THEN None ELSE Some(fs[1])

newtype_body_field(ep) == first_of_kind(ep, "NewtypeBody")

newtype_raw_body_field(ep) == first_of_kind(ep, "NewtypeRawBody")

query_map_field(ep) == first_of_kind(ep, "QueryMap")

\* the declared field with the given identifier (self.#ident)
field_named(ep, name) ==
    LET i == CHOOSE i \in 1..Len(ep.fields) : ep.fields[i].name = name
    IN ep.fields[i]

FieldNames(ep) == {ep.fields[i].name : i \in 1..Len(ep.fields)}

(***************************************************************************)
(* Results, errors and wire requests                                       *)
(***************************************************************************)

NoValue == <<>>

NoError == [type |-> "none"]

Ok(v) == [tag |-> "Ok", value |-> v, error |-> NoError]

Err(e) == [tag |-> "Err", value |-> NoValue, error |-> e]

\* the call does not return: a panic unwinds out of it
Panic(msg) == [tag |-> "Panic", value |-> NoValue, error |-> [type |-> "panic", msg |-> msg]]

NoResult == [tag |-> "None", value |-> NoValue, error |-> NoError]

\* http::Request<Vec<u8>>: the uri is held parsed (path and optional query)
Request(method, path, query, headers, body) ==
    [method |-> method, uri |-> [path |-> path, query |-> query],
     headers |-> headers, body |-> body]

NoHeaders == [n \in {} |-> <<>>]

NoRequest == Request("", <<>>, None, NoHeaders, <<>>)

\* HeaderMap::insert: the value replaces one already held under the name
insert(headers, name, value) ==
    [n \in DOMAIN headers \cup {name} |-> IF n = name THEN value ELSE headers[n]]

\* A deserialization error that keeps the cause and drops the request.
RequestDeserializationError_NoRequest(inner, request) ==
    [type |-> "Deserialization", inner |-> inner,
     http_request |-> [method |-> "", headers |-> [n \in {} |-> <<>>], body |-> <<>>,
                       uri |-> [path |-> <<>>, query |-> None]]]

\* RequestDeserializationError::new(inner, request) -> FromHttpRequestError
RequestDeserializationError(inner, request) ==
    [type |-> "Deserialization", inner |-> inner, http_request |-> request]

\* FromHttpRequestError::MethodMismatch { expected, received }
MethodMismatch(expected, received) ==
    [type |-> "MethodMismatch", expected |-> expected, received |-> received]

\* IntoHttpError::NeedsAuthentication
NeedsAuthentication == [type |-> "NeedsAuthentication"]

\* IntoHttpError::Http(..), from an http::Error by `?`
HttpError(cause) == [type |-> "Http", cause |-> cause]

\* the cause handed to RequestDeserializationError::new
Inner(kind, detail) == [kind |-> kind, detail |-> detail]

(***************************************************************************)
(* Value types of path fields: Display (to_string) and TryFrom<&str>       *)
(***************************************************************************)

\* self.#path_var.to_string()
to_string(ty, v) == IF ty = "UInt" THEN Decimal(v) ELSE v

\* TryFrom::try_from(&*decoded) into the field's type
try_from(ty, s) ==
    IF ty = "UInt"
    THEN IF IsDigits(s) THEN Ok(DigitsValue(s)) ELSE Err(Inner("Parse", "invalid digit"))
    ELSE Ok(s)

(***************************************************************************)
(* Path Template Engine: Request::path_string_and_parse                    *)
(***************************************************************************)

\* the assertions on the template made while the macro expands
path_asserts(ep) ==
    has_path_fields(ep) =>
        /\ StartsWith(ep.path, 47)
        /\ CountByte(ep.path, 58) = path_field_count(ep)
        /\ \A i \in 1..Len(ep.path) : ep.path[i] = 58 => (i > 1 /\ ep.path[i - 1] = 47)

\* the loop that turns the template into a format string and its arguments: each
\* ":name" up to the next '/' becomes "{}" and `name` names the field to print
RECURSIVE format_call(_, _)
format_call(format_string, format_args) ==
    LET start_of_segment == Find(format_string, 58, 1)
    IN IF start_of_segment = 0
       THEN [format_string |-> format_string, format_args |-> format_args]
       ELSE LET rel_pos == Find(format_string, 47, start_of_segment)
                end_of_segment == IF rel_pos # 0 THEN rel_pos ELSE Len(format_string) + 1
                path_var == SubSeq(format_string, start_of_segment + 1, end_of_segment - 1)
            IN format_call(SubSeq(format_string, 1, start_of_segment - 1) \o <<123, 125>>
                             \o SubSeq(format_string, end_of_segment, Len(format_string)),
                           Append(format_args, path_var))

\* format_args!(format_string, args..): the i-th "{}" is replaced by the i-th argument
RECURSIVE format(_, _)
format(format_string, args) ==
    LET open == IF \E i \in 1..(Len(format_string) - 1) :
                       format_string[i] = 123 /\ format_string[i + 1] = 125
                THEN CHOOSE i \in 1..(Len(format_string) - 1) :
                       /\ format_string[i] = 123 /\ format_string[i + 1] = 125
                       /\ \A j \in 1..(i - 1) :
                            ~(format_string[j] = 123 /\ format_string[j + 1] = 125)
                ELSE 0
    IN IF open = 0 \/ args = <<>> THEN format_string
       ELSE SubSeq(format_string, 1, open - 1) \o Head(args)
              \o format(SubSeq(format_string, open + 2, Len(format_string)), Tail(args))

\* A binding by position: the i-th placeholder prints the i-th declared Path field.
format_arg_field_Positional(ep, path_var, i) == fields_of_kind(ep, "Path")[i]

\* the field a format argument prints: self.#path_var, the field of that name
format_arg_field(ep, path_var, i) == field_named(ep, path_var)

\* #request_path_string
request_path_string(ep, this) ==
    IF has_path_fields(ep)
    THEN LET call == format_call(ep.path, <<>>)
             args == [i \in 1..Len(call.format_args) |->
                        LET f == format_arg_field(ep, call.format_args[i], i)
                        IN utf8_percent_encode(to_string(f.ty, this[f.name]))]
         IN format(call.format_string, args)
    ELSE ep.path

\* the placeholders of the template: (index of the segment, name after the ':');
\* none is generated for a request without Path fields
path_fields(ep) ==
    IF ~has_path_fields(ep) THEN <<>>
    ELSE LET segs == Split(Tail(ep.path), 47)
             all  == [k \in 1..Len(segs) |-> [i |-> k - 1, segment |-> segs[k]]]
             sel  == SelectSeq(all, LAMBDA e : StartsWith(e.segment, 58))
         IN [k \in 1..Len(sel) |-> [i |-> sel[k].i, path_var |-> Tail(sel[k].segment)]]

(***************************************************************************)
(* Query codec: urlencoded::to_string and urlencoded::from_str             *)
(***************************************************************************)

\* form-urlencoded byte serialisation: alphanumerics and * - . _ stay, a space
\* becomes '+', every other byte becomes %XY
byte_serialize(s) ==
    LET Enc(b) == IF IsAlphanumeric(b) \/ b \in {42, 45, 46, 95} THEN <<b>>
                  ELSE IF b = 32 THEN <<43>>
                  ELSE <<37, HexUpper(b \div 16), HexUpper(b % 16)>>
        F[i \in 0..Len(s)] == IF i = 0 THEN <<>> ELSE F[i - 1] \o Enc(s[i])
    IN F[Len(s)]

\* length of the well-formed UTF-8 character s starts with, 0 if it starts with none
CharLen(s) ==
    IF \E l \in 1..4 : l <= Len(s) /\ IsUtf8(SubSeq(s, 1, l))
    THEN CHOOSE l \in 1..4 : l <= Len(s) /\ IsUtf8(SubSeq(s, 1, l))
                             /\ \A k \in 1..(l - 1) : ~IsUtf8(SubSeq(s, 1, k))
    ELSE 0

\* String::from_utf8_lossy: an ill-formed byte becomes U+FFFD
RECURSIVE from_utf8_lossy(_)
from_utf8_lossy(s) ==
    IF s = <<>> THEN <<>>
    ELSE LET l == CharLen(s)
         IN IF l = 0 THEN <<239, 191, 189>> \o from_utf8_lossy(Tail(s))
            ELSE SubSeq(s, 1, l) \o from_utf8_lossy(SubSeq(s, l + 1, Len(s)))

\* form-urlencoded decoding of one name or value
form_decode(s) ==
    from_utf8_lossy(percent_decode([i \in 1..Len(s) |-> IF s[i] = 43 THEN 32 ELSE s[i]]))

\* the pieces of s between separators, in order, joined back with sep
RECURSIVE Join(_, _)
Join(pieces, sep) ==
    IF pieces = <<>> THEN <<>>
    ELSE IF Len(pieces) = 1 THEN pieces[1]
    ELSE pieces[1] \o sep \o Join(Tail(pieces), sep)

\* urlencoded::to_string of a list of (name, value) pairs
urlencoded_to_string(pairs) ==
    Join([i \in 1..Len(pairs) |->
            byte_serialize(pairs[i][1]) \o <<61>> \o byte_serialize(pairs[i][2])], <<38>>)

\* form_urlencoded::parse: the (name, value) pairs of a query string
urlencoded_parse(query) ==
    LET pieces == SelectSeq(Split(query, 38), LAMBDA piece : piece # <<>>)
        Pair(piece) ==
            LET eq == Find(piece, 61, 1)
            IN IF eq = 0 THEN <<form_decode(piece), <<>> >>
               ELSE <<form_decode(SubSeq(piece, 1, eq - 1)),
                      form_decode(SubSeq(piece, eq + 1, Len(piece)))>>
    IN [i \in 1..Len(pieces) |-> Pair(pieces[i])]

\* the pairs RequestQuery serialises to: the Query fields in declaration order
\* (an Option that is None is left out), or the QueryMap field's own pairs
request_query_pairs(ep, this) ==
    IF query_map_field(ep).some
    THEN this[query_map_field(ep).v.name]
    ELSE LET qs == fields_of_kind(ep, "Query")
             present == SelectSeq(qs, LAMBDA f : f.ty # "OptString" \/ this[f.name].some)
         IN [i \in 1..Len(present) |->
               <<present[i].name,
                 IF present[i].ty = "OptString" THEN this[present[i].name].v
                 ELSE this[present[i].name]>>]

\* deserialising a struct's fields from (name, value) pairs, names being distinct
\* keys: a String field must occur once, an Option<String> field at most once
struct_from_pairs(fs, pairs, kind) ==
    LET Hits(f) == SelectSeq(pairs, LAMBDA p : p[1] = f.name)
        Bad(f) == \/ Len(Hits(f)) > 1
                  \/ (f.ty = "String" /\ Len(Hits(f)) = 0)
        Val(f) == IF f.ty = "OptString"
                  THEN (IF Len(Hits(f)) = 0 THEN None ELSE Some(Hits(f)[1][2]))
                  ELSE Hits(f)[1][2]
    IN IF \E i \in 1..Len(fs) : Bad(fs[i])
       THEN LET i == CHOOSE i \in 1..Len(fs) : Bad(fs[i]) /\ \A j \in 1..(i - 1) : ~Bad(fs[j])
            IN Err(Inner(kind, IF Len(Hits(fs[i])) > 1 THEN "duplicate field"
                               ELSE "missing field"))
       ELSE Ok([n \in {fs[i].name : i \in 1..Len(fs)} |->
                  Val(CHOOSE f \in {fs[i] : i \in 1..Len(fs)} : f.name = n)])

\* urlencoded::from_str into RequestQuery
urlencoded_from_str(ep, query) ==
    IF query_map_field(ep).some
    THEN Ok(urlencoded_parse(query))
    ELSE struct_from_pairs(fields_of_kind(ep, "Query"), urlencoded_parse(query), "Query")

(***************************************************************************)
(* JSON body codec: serde_json::to_vec and serde_json::from_slice          *)
(***************************************************************************)

Tok(t, v) == [t |-> t, v |-> v]

EmptyObject == << Tok("{", <<>>), Tok("}", <<>>) >>

\* serde_json::to_vec(&RequestBody { .. }): the Body fields in declaration order,
\* an Option that is None as null; RequestBody(field) is the field's value itself
to_vec(ep, this) ==
    IF newtype_body_field(ep).some
    THEN << Tok("str", this[newtype_body_field(ep).v.name]) >>
    ELSE LET bs == fields_of_kind(ep, "Body")
             Member(f) ==
                 << Tok("str", f.name), Tok(":", <<>>),
                    IF f.ty = "OptString"
                    THEN (IF this[f.name].some THEN Tok("str", this[f.name].v)
                          ELSE Tok("null", <<>>))
                    ELSE Tok("str", this[f.name]) >>
         IN << Tok("{", <<>>) >>
              \o Join([i \in 1..Len(bs) |-> Member(bs[i])], << Tok(",", <<>>) >>)
              \o << Tok("}", <<>>) >>

\* whether the tokens are one JSON object of string-or-null members
IsObject(json) ==
    /\ Len(json) >= 2
    /\ json[1].t = "{"
    /\ json[Len(json)].t = "}"
    /\ LET inner == SubSeq(json, 2, Len(json) - 1)
       IN \/ inner = <<>>
          \/ /\ Len(inner) % 4 = 3
             /\ \A k \in 1..Len(inner) :
                    CASE k % 4 = 1 -> inner[k].t = "str"
                      [] k % 4 = 2 -> inner[k].t = ":"
                      [] k % 4 = 3 -> inner[k].t \in {"str", "null"}
                      [] OTHER     -> inner[k].t = ","

\* the members of an object, as (name, value token) pairs
ObjectMembers(json) ==
    LET inner == SubSeq(json, 2, Len(json) - 1)
    IN [j \in 1..((Len(inner) + 1) \div 4) |-> <<inner[4 * j - 3].v, inner[4 * j - 1]>>]

\* serde_json::from_slice into RequestBody's Incoming type
from_slice(ep, json) ==
    IF newtype_body_field(ep).some
    THEN IF Len(json) = 1 /\ json[1].t = "str"
         THEN Ok(json[1].v)
         ELSE Err(Inner("Json", IF IsObject(json) THEN "invalid type" ELSE "syntax"))
    ELSE IF ~IsObject(json) THEN Err(Inner("Json", "syntax"))
    ELSE LET bs == fields_of_kind(ep, "Body")
             members == ObjectMembers(json)
             Hits(f) == SelectSeq(members, LAMBDA m : m[1] = f.name)
             WrongType(f) == f.ty = "String" /\ \E k \in 1..Len(Hits(f)) : Hits(f)[k][2].t = "null"
             strs == SelectSeq(members, LAMBDA m : m[2].t = "str")
         IN IF \E i \in 1..Len(bs) : Len(Hits(bs[i])) > 1
            THEN Err(Inner("Json", "duplicate field"))
            ELSE IF \E i \in 1..Len(bs) : WrongType(bs[i])
            THEN Err(Inner("Json", "invalid type"))
            ELSE struct_from_pairs(bs, [k \in 1..Len(strs) |-> <<strs[k][1], strs[k][2].v>>],
                                   "Json")

(***************************************************************************)
(* http: header values and the request URI                                 *)
(***************************************************************************)

\* HeaderValue::from_str accepts a string of bytes that are each >= 32 and not 127,
\* or a tab
header_value_from_str_ok(s) == \A i \in 1..Len(s) : (s[i] >= 32 /\ s[i] # 127) \/ s[i] = 9

\* HeaderValue::to_str yields the string when every byte is visible ASCII or a tab
header_value_to_str_ok(s) == \A i \in 1..Len(s) : (s[i] >= 32 /\ s[i] < 127) \/ s[i] = 9

\* "application/json"
application_json == <<97, 112, 112, 108, 105, 99, 97, 116, 105, 111, 110, 47, 106, 115, 111, 110>>

\* "Bearer "
bearer == <<66, 101, 97, 114, 101, 114, 32>>

\* The base URL joined to the path with its trailing '/' left in place.
strip_suffix_Keep(base_url) == base_url

\* base_url.strip_suffix('/').unwrap_or(base_url)
strip_suffix(base_url) ==
    IF Len(base_url) >= 1 /\ base_url[Len(base_url)] = 47
    THEN SubSeq(base_url, 1, Len(base_url) - 1)
    ELSE base_url

\* RequestBuilder::uri(string): the string parsed as an http::Uri, in origin form
\* ("/path?query") or absolute form ("scheme://authority/path?query"); path() of a
\* URI with an authority and no path is "/"
uri(string) ==
    LET visible == \A i \in 1..Len(string) : string[i] > 32 /\ string[i] < 127
        colon   == Find(string, 58, 1)
        scheme  == /\ colon > 1
                   /\ Len(string) >= colon + 3
                   /\ string[colon + 1] = 47 /\ string[colon + 2] = 47
                   /\ string[colon + 3] \notin {47, 63}
        slash   == IF StartsWith(string, 47) THEN 1
                   ELSE IF scheme THEN Find(string, 47, colon + 3) ELSE 0
        rest    == IF slash = 0 THEN <<47>> ELSE SubSeq(string, slash, Len(string))
        mark    == Find(rest, 63, 1)
    IN [ok    |-> visible /\ (StartsWith(string, 47) \/ scheme),
        path  |-> IF mark = 0 THEN rest ELSE SubSeq(rest, 1, mark - 1),
        query |-> IF mark = 0 THEN None ELSE Some(SubSeq(rest, mark + 1, Len(rest)))]

(***************************************************************************)
(* try_into_http_request                                                   *)
(***************************************************************************)

\* #request_query_string (build_query_string)
request_query_string(ep, this) ==
    IF query_map_field(ep).some \/ has_query_fields(ep)
    THEN <<63>> \o urlencoded_to_string(request_query_pairs(ep, this))
    ELSE <<>>

\* A header written for every Header field, an Option that is None as an empty value.
header_value_Always(f, this) ==
    IF f.ty = "OptString" THEN Some(this[f.name].v) ELSE Some(this[f.name])

\* the value a Header field contributes: `if let Some(header_val)` for a field whose
\* type is an Option, the field's value otherwise
header_value(f, this) ==
    IF f.ty = "OptString" THEN this[f.name] ELSE Some(this[f.name])

\* #header_kvs, the Header fields: one insert per field, in declaration order,
\* returning at the first value HeaderValue::from_str refuses
RECURSIVE header_kvs(_, _, _, _)
header_kvs(fs, this, k, req_headers) ==
    IF k > Len(fs) THEN Ok(req_headers)
    ELSE LET val == header_value(fs[k], this)
         IN IF ~val.some THEN header_kvs(fs, this, k + 1, req_headers)
            ELSE IF ~header_value_from_str_ok(val.v)
                 THEN Err(HttpError("InvalidHeaderValue"))
                 ELSE header_kvs(fs, this, k + 1, insert(req_headers, fs[k].header, val.v))

\* An Authorization header left out when no token is supplied.
authentication_kvs_Omit(ep, access_token, req_headers) ==
    IF ep.authentication = "AccessToken" /\ access_token.some
    THEN IF ~header_value_from_str_ok(bearer \o access_token.v)
         THEN Err(HttpError("InvalidHeaderValue"))
         ELSE Ok(insert(req_headers, "AUTHORIZATION", bearer \o access_token.v))
    ELSE Ok(req_headers)

\* #header_kvs, the part added for an authentication entry "AccessToken"
authentication_kvs(ep, access_token, req_headers) ==
    IF ep.authentication = "AccessToken"
    THEN IF ~access_token.some THEN Err(NeedsAuthentication)
         ELSE IF ~header_value_from_str_ok(bearer \o access_token.v)
              THEN Err(HttpError("InvalidHeaderValue"))
              ELSE Ok(insert(req_headers, "AUTHORIZATION", bearer \o access_token.v))
    ELSE Ok(req_headers)

\* A body that is JSON whatever the shape: the raw-body arm left out.
request_body_NoRawArm(ep, this) ==
    IF has_body_fields(ep) \/ newtype_body_field(ep).some THEN to_vec(ep, this)
    ELSE <<>>

\* #request_body
request_body(ep, this) ==
    IF newtype_raw_body_field(ep).some THEN this[newtype_raw_body_field(ep).v.name]
    ELSE IF has_body_fields(ep) \/ newtype_body_field(ep).some THEN to_vec(ep, this)
    ELSE <<>>

\* No Content-Type header put on the builder.
content_type_header_Omit(req_headers) == req_headers

\* .header(CONTENT_TYPE, "application/json") on the request builder
content_type_header(req_headers) == insert(req_headers, "CONTENT_TYPE", application_json)

\* OutgoingRequest::try_into_http_request

try_into_http_request(ep, this, base, access_token) ==
    LET built == uri(strip_suffix(base) \o request_path_string(ep, this)
                       \o request_query_string(ep, this))
        with_content_type == content_type_header(NoHeaders)
        field_headers == header_kvs(header_fields(ep), this, 1, with_content_type)
        all_headers == IF field_headers.tag = "Ok"
                       THEN authentication_kvs(ep, access_token, field_headers.value)
                       ELSE field_headers
    IN IF ~built.ok THEN Panic("http::RequestBuilder is in unusable state")
       ELSE IF all_headers.tag # "Ok" THEN all_headers
       ELSE Ok(Request(ep.method, built.path, built.query, all_headers.value,
                       request_body(ep, this)))

(***************************************************************************)
(* try_from_http_request                                                   *)
(***************************************************************************)

\* the union of two records of field values with disjoint names
Merge(f, g) == [n \in DOMAIN f \cup DOMAIN g |-> IF n \in DOMAIN f THEN f[n] ELSE g[n]]

NoFields == [n \in {} |-> <<>>]

\* try_deserialize!(request, result)
try_deserialize(request, result) ==
    IF result.tag = "Ok" THEN result
    ELSE Err(RequestDeserializationError(result.error, request))

\* A query string that has to be there: no unwrap_or("").
extract_request_query_Required(ep, request) ==
    IF query_map_field(ep).some \/ has_query_fields(ep)
    THEN IF request.uri.query.some
         THEN try_deserialize(request, urlencoded_from_str(ep, request.uri.query.v))
         ELSE Err(RequestDeserializationError(Inner("Query", "no query string"), request))
    ELSE Ok(NoFields)

\* #extract_request_query
extract_request_query(ep, request) ==
    IF query_map_field(ep).some \/ has_query_fields(ep)
    THEN try_deserialize(request,
             urlencoded_from_str(ep, IF request.uri.query.some THEN request.uri.query.v
                                     ELSE <<>>))
    ELSE Ok(NoFields)

\* The body handed to the JSON decoder as received.
request_json_Verbatim(request) == request.body

\* the bytes handed to the JSON decoder: b"" => b"{}", body => body
request_json(request) == IF request.body = <<>> THEN EmptyObject ELSE request.body

\* #extract_request_body
extract_request_body(ep, request) ==
    IF has_body_fields(ep) \/ newtype_body_field(ep).some
    THEN try_deserialize(request, from_slice(ep, request_json(request)))
    ELSE Ok(NoFields)

\* Utf8 validation left out of the path decoding.
decode_utf8_Unchecked(bytes) == Ok(bytes)

\* percent_decode(segment).decode_utf8()
decode_utf8(bytes) ==
    IF IsUtf8(bytes) THEN Ok(bytes) ELSE Err(Inner("Utf8", "invalid utf-8 sequence"))

\* A binding by position: the k-th placeholder fills the k-th declared Path field.
parse_arg_field_Positional(ep, path_var, k) == fields_of_kind(ep, "Path")[k]

\* the field a placeholder initialises: `#path_var_ident: { .. }`, the field of that name
parse_arg_field(ep, path_var, k) == field_named(ep, path_var)

\* The segment read from the end of the path rather than at the placeholder's index.
path_segment_Last(path_segments, i) == path_segments[Len(path_segments)]

\* path_segments[#i], with #i counted from zero
path_segment(path_segments, i) == path_segments[i + 1]

\* #parse_request_path: the initialisers of the Path fields in template order, each
\* reading path_segments[i]
RECURSIVE parse_request_path(_, _, _, _, _)
parse_request_path(ep, request, path_segments, k, acc) ==
    IF k > Len(path_fields(ep)) THEN Ok(acc)
    ELSE LET pf == path_fields(ep)[k]
             f  == parse_arg_field(ep, pf.path_var, k)
         IN IF pf.i + 1 > Len(path_segments) THEN Panic("index out of bounds")
            ELSE LET decoded == try_deserialize(request,
                                    decode_utf8(percent_decode(path_segment(path_segments, pf.i))))
                     parsed  == IF decoded.tag = "Ok"
                                THEN try_deserialize(request, try_from(f.ty, decoded.value))
                                ELSE decoded
                 IN IF parsed.tag # "Ok" THEN parsed
                    ELSE parse_request_path(ep, request, path_segments, k + 1,
                                            Merge(acc, [n \in {f.name} |-> parsed.value]))

\* A missing header read as an empty value.
header_none_case_Empty(f, request) ==
    IF f.ty = "OptString" THEN Ok(None) ELSE Ok(<<>>)

\* the None arm of `match headers.get(..)`: None for a field whose type is an Option,
\* a MissingHeader error naming the header otherwise
header_none_case(f, request) ==
    IF f.ty = "OptString" THEN Ok(None)
    ELSE Err(RequestDeserializationError(Inner("MissingHeader", f.header), request))

\* header_value.to_str()
header_to_str(value) ==
    IF header_value_to_str_ok(value) THEN Ok(value)
    ELSE Err(Inner("ToStr", "failed to convert header to a str"))

\* #parse_request_headers: the initialisers of the Header fields in declaration order
RECURSIVE parse_request_headers(_, _, _, _)
parse_request_headers(fs, request, k, acc) ==
    IF k > Len(fs) THEN Ok(acc)
    ELSE LET f == fs[k]
             got == IF f.header \in DOMAIN request.headers
                    THEN LET str_value == try_deserialize(request,
                                              header_to_str(request.headers[f.header]))
                         IN IF str_value.tag # "Ok" THEN str_value
                            ELSE IF f.ty = "OptString" THEN Ok(Some(str_value.value))
                            ELSE str_value
                    ELSE header_none_case(f, request)
         IN IF got.tag # "Ok" THEN got
            ELSE parse_request_headers(fs, request, k + 1,
                                       Merge(acc, [n \in {f.name} |-> got.value]))

\* The raw body field filled with the bytes prepared for the JSON decoder.
parse_request_body_Json(ep, request, request_body_value) ==
    IF newtype_body_field(ep).some
    THEN [n \in {newtype_body_field(ep).v.name} |-> request_body_value]
    ELSE IF newtype_raw_body_field(ep).some
    THEN [n \in {newtype_raw_body_field(ep).v.name} |-> request_json(request)]
    ELSE request_body_value

\* #parse_request_body
parse_request_body(ep, request, request_body_value) ==
    IF newtype_body_field(ep).some
    THEN [n \in {newtype_body_field(ep).v.name} |-> request_body_value]
    ELSE IF newtype_raw_body_field(ep).some
    THEN [n \in {newtype_raw_body_field(ep).v.name} |-> request.body]
    ELSE request_body_value

\* #parse_request_query
parse_request_query(ep, request_query) ==
    IF query_map_field(ep).some
    THEN [n \in {query_map_field(ep).v.name} |-> request_query]
    ELSE request_query

\* The method left unchecked.
method_matches_Any(ep, request) == TRUE

\* request.method() == Method::#method
method_matches(ep, request) == request.method = ep.method

try_from_http_request(ep, request) ==
    IF ~method_matches(ep, request)
    THEN Err(MethodMismatch(ep.method, request.method))
    ELSE IF has_path_fields(ep) /\ Len(request.uri.path) < 1
    THEN Panic("byte index 1 is out of bounds")
    ELSE LET path_segments == Split(Tail(request.uri.path), 47)
             request_query == extract_request_query(ep, request)
             request_body_value == extract_request_body(ep, request)
             path == parse_request_path(ep, request, path_segments, 1, NoFields)
             headers == parse_request_headers(header_fields(ep), request, 1, NoFields)
         IN IF request_query.tag # "Ok" THEN request_query
            ELSE IF request_body_value.tag # "Ok" THEN request_body_value
            ELSE IF path.tag # "Ok" THEN path
            ELSE IF headers.tag # "Ok" THEN headers
            ELSE Ok(Merge(Merge(path.value, parse_request_query(ep, request_query.value)),
                          Merge(headers.value,
                                parse_request_body(ep, request, request_body_value.value))))

(***************************************************************************)
(* Expansion: what Request::expand accepts and what it implements          *)
(***************************************************************************)

\* Ident::new(name, ..) accepts a name that is a Rust identifier
ident_ok(name) ==
    /\ name # <<>>
    /\ \A i \in 1..Len(name) : IsAlphanumeric(name[i]) \/ name[i] = 95
    /\ name[1] \notin 48..57

\* the placeholder names the expansion turns into identifiers
path_idents_ok(ep) ==
    \A k \in 1..Len(path_fields(ep)) : ident_ok(path_fields(ep)[k].path_var)

\* the fields #parse_request_path initialises: one per placeholder, by its name
path_init_names(ep) == [k \in 1..Len(path_fields(ep)) |-> path_fields(ep)[k].path_var]

\* An initialiser for the QueryMap field and for every Query field as well.
query_init_names_All(ep) ==
    [k \in 1..Len(fields_of_kind(ep, "QueryMap")) |-> fields_of_kind(ep, "QueryMap")[k].name]
        \o [k \in 1..Len(fields_of_kind(ep, "Query")) |-> fields_of_kind(ep, "Query")[k].name]

\* the fields #parse_request_query initialises: the QueryMap field when there is
\* one, the Query fields otherwise
query_init_names(ep) ==
    IF query_map_field(ep).some THEN << query_map_field(ep).v.name >>
    ELSE [k \in 1..Len(fields_of_kind(ep, "Query")) |-> fields_of_kind(ep, "Query")[k].name]

\* the fields #parse_request_headers initialises: every Header field
header_init_names(ep) == [k \in 1..Len(header_fields(ep)) |-> header_fields(ep)[k].name]

\* An initialiser for every field of a body kind.
body_init_names_All(ep) ==
    LET bs == SelectSeq(ep.fields,
                        LAMBDA f : f.kind \in {"Body", "NewtypeBody", "NewtypeRawBody"})
    IN [k \in 1..Len(bs) |-> bs[k].name]

\* the fields #parse_request_body initialises: the NewtypeBody field, else the
\* RawBody field, else the Body fields
body_init_names(ep) ==
    IF newtype_body_field(ep).some THEN << newtype_body_field(ep).v.name >>
    ELSE IF newtype_raw_body_field(ep).some THEN << newtype_raw_body_field(ep).v.name >>
    ELSE [k \in 1..Len(fields_of_kind(ep, "Body")) |-> fields_of_kind(ep, "Body")[k].name]

\* Ok(Self { #parse_request_path #parse_request_query #parse_request_headers
\* #parse_request_body }) compiles when it names every field of the struct once
struct_init_ok(ep) ==
    LET names == path_init_names(ep) \o query_init_names(ep)
                     \o header_init_names(ep) \o body_init_names(ep)
    IN /\ Len(names) = Len(ep.fields)
       /\ {names[k] : k \in 1..Len(names)} = FieldNames(ep)
       /\ \A j, k \in 1..Len(names) : names[j] = names[k] => j = k

\* the expansion runs through without a panic and its output compiles
expand_ok(ep) == path_asserts(ep) /\ path_idents_ok(ep) /\ struct_init_ok(ep)

\* The markers implemented whatever the authentication scheme.
non_auth_endpoint_impls_Always(authentication) ==
    {"OutgoingNonAuthRequest", "IncomingNonAuthRequest"}

\* #non_auth_endpoint_impls for one authentication entry
non_auth_endpoint_impls(authentication) ==
    IF authentication # "None" THEN {}
    ELSE {"OutgoingNonAuthRequest", "IncomingNonAuthRequest"}

\* the impls in the expansion's output
expand_impls(ep) ==
    {"OutgoingRequest", "IncomingRequest"} \cup non_auth_endpoint_impls(ep.authentication)

\* declarations that are not well-formed endpoints: a template with a placeholder
\* and no Path field; a template without the leading '/' and one with a ':' inside
\* a segment, each with and without a Path field; fewer and more Path fields than
\* placeholders; a placeholder named after a Query field; a QueryMap field next to
\* a Query field; a NewtypeBody field next to a RawBody field; two RawBody fields;
\* a RawBody field next to a Body field
Malformed ==
    << Endpoint("ghost", "GET", <<47, 103, 47, 58, 120>>, "None", <<>>),
       Endpoint("no_slash", "GET", <<115>>, "None", <<>>),
       Endpoint("inner_colon", "GET", <<47, 97, 58, 120>>, "None", <<>>),
       Endpoint("no_slash_path", "GET", <<97, 47, 58, 120>>, "None",
                << Field(f_x, "Path", "String", "") >>),
       Endpoint("inner_colon_path", "GET", <<47, 97, 58, 120>>, "None",
                << Field(f_x, "Path", "String", "") >>),
       Endpoint("count_short", "GET", <<47, 97, 47, 58, 120, 47, 98, 47, 58, 121>>, "None",
                << Field(f_x, "Path", "String", "") >>),
       Endpoint("count_long", "GET", <<47, 97, 47, 58, 120>>, "None",
                << Field(f_x, "Path", "String", ""), Field(f_y, "Path", "UInt", "") >>),
       Endpoint("wrong_name", "GET", <<47, 97, 47, 58, 114>>, "None",
                << Field(f_x, "Path", "String", ""), Field(f_r, "Query", "OptString", "") >>),
       Endpoint("both_query", "GET", <<47, 115>>, "None",
                << Field(f_m, "QueryMap", "Pairs", ""), Field(f_r, "Query", "OptString", "") >>),
       Endpoint("two_bodies", "POST", <<47, 115>>, "None",
                << Field(f_n, "NewtypeBody", "String", ""),
                   Field(f_w, "NewtypeRawBody", "Bytes", "") >>),
       Endpoint("two_raw", "POST", <<47, 115>>, "None",
                << Field(f_w, "NewtypeRawBody", "Bytes", ""),
                   Field(f_b, "NewtypeRawBody", "Bytes", "") >>),
       Endpoint("raw_and_body", "POST", <<47, 115>>, "None",
                << Field(f_w, "NewtypeRawBody", "Bytes", ""),
                   Field(f_c, "Body", "OptString", "") >>) >>

\* every declaration the macro is run on
Declarations ==
    {Endpoints[i] : i \in 1..Len(Endpoints)} \cup {Malformed[i] : i \in 1..Len(Malformed)}

(***************************************************************************)
(* Inputs: typed requests, tokens, base URLs and incoming wire requests    *)
(***************************************************************************)

\* how many entries of each pool of input values are used
NumPathStrs == 4
NumUInts == 2
NumQueryStrs == 2
NumHeaderStrs == 3
NumBodyStrs == 1
NumPairLists == 2
NumRawBodies == 2
NumTokens == 2
NumIncomingPaths == 7
NumIncomingQueries == 3
NumIncomingHeaders == 5
NumIncomingBodies == 4

Take(pool, n) == {pool[i] : i \in 1..(IF n < Len(pool) THEN n ELSE Len(pool))}

\* "foo bar", "", "/:%41", "é", "a"
PathStrPool ==
    << <<102, 111, 111, 32, 98, 97, 114>>, <<>>, <<47, 58, 37, 52, 49>>, <<195, 169>>, <<97>> >>

UIntPool == << 42, 0, 7 >>

\* "a b", "&=é", ""
QueryStrPool == << <<97, 32, 98>>, <<38, 61, 195, 169>>, <<>> >>

\* "a", "é", "\n", ""
HeaderStrPool == << <<97>>, <<195, 169>>, <<10>>, <<>> >>

\* "v", "", "é"
BodyStrPool == << <<118>>, <<>>, <<195, 169>> >>

\* [], [("k", "a b")], [("k", "v"), ("k", "")]
PairListPool ==
    << <<>>, << <<<<107>>, <<97, 32, 98>>>> >>,
       << <<<<107>>, <<118>>>>, <<<<107>>, <<>>>> >> >>

\* bodies that are not JSON, and the empty body
RawBodyPool == << << Tok("}", <<>>) >>, <<>>, EmptyObject >>

\* "t", "\n"
TokenPool == << <<116>>, <<10>>, <<116, 116>> >>

\* "http://h", "http://h/"
BaseUrls == { <<104, 116, 116, 112, 58, 47, 47, 104>>,
              <<104, 116, 116, 112, 58, 47, 47, 104, 47>> }

Optional(S) == {None} \cup {Some(v) : v \in S}

\* the values a declared field can hold
FieldValues(f) ==
    CASE f.kind = "Path" /\ f.ty = "UInt" -> Take(UIntPool, NumUInts)
      [] f.kind = "Path" /\ f.ty # "UInt" -> Take(PathStrPool, NumPathStrs)
      [] f.kind = "Query" /\ f.ty = "String" -> Take(QueryStrPool, NumQueryStrs)
      [] f.kind = "Query" /\ f.ty # "String" -> Optional(Take(QueryStrPool, NumQueryStrs))
      [] f.kind = "Header" /\ f.ty = "String" -> Take(HeaderStrPool, NumHeaderStrs)
      [] f.kind = "Header" /\ f.ty # "String" -> Optional(Take(HeaderStrPool, NumHeaderStrs))
      [] f.kind = "Body" /\ f.ty = "String" -> Take(BodyStrPool, NumBodyStrs)
      [] f.kind = "Body" /\ f.ty # "String" -> Optional(Take(BodyStrPool, NumBodyStrs))
      [] f.kind = "NewtypeBody" -> Take(BodyStrPool, NumBodyStrs)
      [] f.kind = "NewtypeRawBody" -> Take(RawBodyPool, NumRawBodies)
      [] OTHER -> Take(PairListPool, NumPairLists)

\* every value of the Request struct over the given fields
RECURSIVE StructValues(_)
StructValues(fs) ==
    IF fs = <<>> THEN {NoFields}
    ELSE {Merge([n \in {Head(fs).name} |-> v], rest) :
              v \in FieldValues(Head(fs)), rest \in StructValues(Tail(fs))}

Requests(ep) == StructValues(ep.fields)

Tokens == Optional(Take(TokenPool, NumTokens))

\* "/a/foo%20bar/b/42", "/a/x/b", "/a/%FF/b/1", "/z/x/z/7/extra", "/a/x/b/zz",
\* "/", "/a/x/b/%FF", "/m/%E9", "/s"
IncomingPathPool ==
    << <<47, 97, 47, 102, 111, 111, 37, 50, 48, 98, 97, 114, 47, 98, 47, 52, 50>>,
       <<47, 97, 47, 120, 47, 98>>,
       <<47, 97, 47, 37, 70, 70, 47, 98, 47, 49>>,
       <<47, 122, 47, 120, 47, 122, 47, 55, 47, 101, 120, 116, 114, 97>>,
       <<47, 97, 47, 120, 47, 98, 47, 122, 122>>,
       <<47>>,
       <<47, 97, 47, 120, 47, 98, 47, 37, 70, 70>>,
       <<47, 109, 47, 37, 69, 57>>,
       <<47, 115>> >>

\* no query, "q=a+b&r=%26", "r=1&r=2", "", "q=1&k=v"
IncomingQueryPool ==
    << None,
       Some(<<113, 61, 97, 43, 98, 38, 114, 61, 37, 50, 54>>),
       Some(<<114, 61, 49, 38, 114, 61, 50>>),
       Some(<<>>),
       Some(<<113, 61, 49, 38, 107, 61, 118>>) >>

Headers1(n, v) == [h \in {n} |-> v]

\* no header; LOCATION: a; USER_AGENT: é; LOCATION: a and USER_AGENT: 0xFF;
\* LOCATION: 0xFF; LOCATION: é and USER_AGENT: a
IncomingHeaderPool ==
    << NoHeaders,
       Headers1("LOCATION", <<97>>),
       Headers1("USER_AGENT", <<195, 169>>),
       Merge(Headers1("LOCATION", <<97>>), Headers1("USER_AGENT", <<255>>)),
       Headers1("LOCATION", <<255>>),
       Merge(Headers1("LOCATION", <<195, 169>>), Headers1("USER_AGENT", <<97>>)),
       Merge(Headers1("LOCATION", <<97>>), Headers1("USER_AGENT", <<97>>)) >>

\* zero-length; {}; {"b":"v","c":null}; not JSON; "v"; {"c":"v","c":"v"}
IncomingBodyPool ==
    << <<>>,
       EmptyObject,
       << Tok("{", <<>>), Tok("str", f_b), Tok(":", <<>>), Tok("str", <<118>>), Tok(",", <<>>),
          Tok("str", f_c), Tok(":", <<>>), Tok("null", <<>>), Tok("}", <<>>) >>,
       << Tok("{", <<>>), Tok(",", <<>>) >>,
       << Tok("str", <<118>>) >>,
       << Tok("{", <<>>), Tok("str", f_c), Tok(":", <<>>), Tok("str", <<118>>), Tok(",", <<>>),
          Tok("str", f_c), Tok(":", <<>>), Tok("str", <<118>>), Tok("}", <<>>) >> >>

\* the wire requests a peer can send to the endpoint: its method or another one
IncomingRequests(ep) ==
    {Request(m, p, q, h, b) :
        m \in {ep.method, "DELETE"},
        p \in Take(IncomingPathPool, NumIncomingPaths),
        q \in Take(IncomingQueryPool, NumIncomingQueries),
        h \in Take(IncomingHeaderPool, NumIncomingHeaders),
        b \in Take(IncomingBodyPool, NumIncomingBodies)}

(***************************************************************************)
(* The state machine                                                       *)
(***************************************************************************)

\* the calls that can be in progress at once
Calls == {"a", "b"}

\* a call that has not started: it owns nothing yet
IdleCall ==
    [kind |-> "none", pc |-> "idle", this |-> NoFields, access_token |-> None,
     base_url |-> <<>>, arg |-> NoRequest, request |-> NoRequest, acc |-> NoFields,
     result |-> NoResult]

\* no conversion has been asked for
NoConv == [op |-> "none", input |-> <<>>, result |-> NoResult]

\* the endpoints for which the expansion yields code that compiles
UsableEndpoints == {ep \in Declarations : expand_ok(ep)}

Init ==
    /\ endpoint \in Declarations
    /\ pc = "declared"
    /\ impls = {}
    /\ origin = "none"
    /\ self = NoFields
    /\ token = None
    /\ baseUrl = <<>>
    /\ wire = NoRequest
    /\ encRes = NoResult
    /\ decRes = NoResult
    /\ calls = [c \in Calls |-> IdleCall]
    /\ conv = NoConv

\* the macro expands the endpoint's request and the result is compiled: the
\* endpoint becomes callable, or the build fails
Expand ==
    /\ pc = "declared"
    /\ pc' = IF expand_ok(endpoint) THEN "idle" ELSE "rejected"
    /\ impls' = IF expand_ok(endpoint) THEN expand_impls(endpoint) ELSE {}
    /\ UNCHANGED <<endpoint, origin, self, token, baseUrl, wire, encRes, decRes, calls, conv>>

\* a client calls try_into_http_request on a typed request
IntoHttpRequest ==
    /\ pc = "idle"
    /\ \E this \in Requests(endpoint), access_token \in Tokens, base \in BaseUrls :
         LET res == try_into_http_request(endpoint, this, base, access_token)
         IN /\ self' = this
            /\ token' = access_token
            /\ baseUrl' = base
            /\ encRes' = res
            /\ wire' = IF res.tag = "Ok" THEN res.value ELSE wire
            /\ origin' = IF res.tag = "Ok" THEN "client" ELSE origin
            /\ pc' = IF res.tag = "Ok" THEN "encoded" ELSE "failed"
    /\ UNCHANGED <<endpoint, impls, decRes, calls, conv>>

\* a wire request arrives from the network
Receive ==
    /\ pc = "idle"
    /\ \E request \in IncomingRequests(endpoint) :
         /\ wire' = request
         /\ origin' = "network"
         /\ pc' = "received"
    /\ UNCHANGED <<endpoint, impls, self, token, baseUrl, encRes, decRes, calls, conv>>

\* the server calls try_from_http_request on the wire request it holds
FromHttpRequest ==
    /\ pc \in {"encoded", "received"}
    /\ decRes' = try_from_http_request(endpoint, wire)
    /\ pc' = "decoded"
    /\ UNCHANGED <<endpoint, impls, origin, self, token, baseUrl, wire, encRes, calls, conv>>

Next == Expand \/ IntoHttpRequest \/ Receive \/ FromHttpRequest

Spec == Init /\ [][Next]_vars

(***************************************************************************)
(* Calls in progress at once: each call in the steps of its code           *)
(***************************************************************************)

\* One working request shared by every call, as a static buffer would be.
store_Shared(cs, c, rec) ==
    [d \in DOMAIN cs |-> IF d = c THEN rec ELSE [cs[d] EXCEPT !.request = rec.request]]

\* a call writes what it owns: `self` and `request` are passed by value and the
\* http::Request under construction is a local
store(cs, c, rec) == [cs EXCEPT ![c] = rec]

\* the endpoints the concurrent calls are made on
ConcEndpoints ==
    {ep \in UsableEndpoints : ep.name \in {"path_only", "header_only", "body_only", "mixed"}}

\* the values a field takes in a concurrent call
ConcFieldValues(f) ==
    CASE f.ty = "UInt" -> {42}
      [] f.ty = "String" -> { <<97>>, <<102, 111, 111, 32, 98, 97, 114>> }
      [] f.ty = "OptString" -> {None, Some(<<97>>)}
      [] f.ty = "Bytes" -> { <<>>, EmptyObject }
      [] OTHER -> { <<>> }

RECURSIVE ConcStructValues(_)
ConcStructValues(fs) ==
    IF fs = <<>> THEN {NoFields}
    ELSE {Merge([n \in {Head(fs).name} |-> v], rest) :
              v \in ConcFieldValues(Head(fs)), rest \in ConcStructValues(Tail(fs))}

\* the wire requests handed to a concurrent try_from_http_request
ConcIncoming(ep) ==
    {Request(m, p, None, h, b) :
        m \in {ep.method, "DELETE"},
        p \in {IncomingPathPool[1], IncomingPathPool[2], IncomingPathPool[9]},
        h \in {IncomingHeaderPool[1], IncomingHeaderPool[2]},
        b \in {IncomingBodyPool[1], IncomingBodyPool[3]}}

ConcInit ==
    /\ endpoint \in ConcEndpoints
    /\ pc = "idle"
    /\ impls = expand_impls(endpoint)
    /\ origin = "none"
    /\ self = NoFields
    /\ token = None
    /\ baseUrl = <<>>
    /\ wire = NoRequest
    /\ encRes = NoResult
    /\ decRes = NoResult
    /\ calls = [c \in Calls |-> IdleCall]
    /\ conv = NoConv

ConcUnchanged ==
    UNCHANGED <<endpoint, pc, impls, origin, self, token, baseUrl, wire, encRes, decRes, conv>>

\* try_into_http_request is called: the call owns self; base_url and access_token
\* are its arguments
IntoStart(c) ==
    /\ calls[c].pc = "idle"
    /\ \E this \in ConcStructValues(endpoint.fields),
          access_token \in {None, Some(<<116>>)} :
         calls' = store(calls, c,
                     [calls[c] EXCEPT !.kind = "into", !.pc = "builder", !.this = this,
                                      !.access_token = access_token,
                                      !.base_url = <<104, 116, 116, 112, 58, 47, 47, 104>>])
    /\ ConcUnchanged

\* http::Request::builder().method(..).uri(..).header(CONTENT_TYPE, ..)
IntoBuilder(c) ==
    /\ calls[c].pc = "builder"
    /\ LET me == calls[c]
           built == uri(strip_suffix(me.base_url) \o request_path_string(endpoint, me.this)
                          \o request_query_string(endpoint, me.this))
       IN calls' = store(calls, c,
                     IF ~built.ok
                     THEN [me EXCEPT !.pc = "done",
                                     !.result = Panic("http::RequestBuilder is in unusable state")]
                     ELSE [me EXCEPT !.pc = "headers",
                                     !.request = Request(endpoint.method, built.path, built.query,
                                                         content_type_header(NoHeaders), <<>>)])
    /\ ConcUnchanged

\* #header_kvs on req_builder.headers_mut()
IntoHeaders(c) ==
    /\ calls[c].pc = "headers"
    /\ LET me == calls[c]
           field_headers == header_kvs(header_fields(endpoint), me.this, 1, me.request.headers)
           all_headers == IF field_headers.tag = "Ok"
                          THEN authentication_kvs(endpoint, me.access_token, field_headers.value)
                          ELSE field_headers
       IN calls' = store(calls, c,
                     IF all_headers.tag # "Ok"
                     THEN [me EXCEPT !.pc = "done", !.result = all_headers]
                     ELSE [me EXCEPT !.pc = "body", !.request.headers = all_headers.value])
    /\ ConcUnchanged

\* req_builder.body(#request_body)? and Ok(http_request)
IntoBody(c) ==
    /\ calls[c].pc = "body"
    /\ LET me == calls[c]
           http_request == [me.request EXCEPT !.body = request_body(endpoint, me.this)]
       IN calls' = store(calls, c,
                     [me EXCEPT !.pc = "done", !.request = http_request,
                                !.result = Ok(http_request)])
    /\ ConcUnchanged

\* try_from_http_request is called: the call owns the request
FromStart(c) ==
    /\ calls[c].pc = "idle"
    /\ \E request \in ConcIncoming(endpoint) :
         calls' = store(calls, c,
                     [calls[c] EXCEPT !.kind = "from", !.pc = "method", !.arg = request,
                                      !.request = request])
    /\ ConcUnchanged

\* if request.method() != METHOD { return Err(MethodMismatch) }
FromMethod(c) ==
    /\ calls[c].pc = "method"
    /\ LET me == calls[c]
       IN calls' = store(calls, c,
                     IF ~method_matches(endpoint, me.request)
                     THEN [me EXCEPT !.pc = "done",
                                     !.result = Err(MethodMismatch(endpoint.method,
                                                                   me.request.method))]
                     ELSE [me EXCEPT !.pc = "extract"])
    /\ ConcUnchanged

\* #extract_request_path #extract_request_query #extract_request_headers
\* #extract_request_body
FromExtract(c) ==
    /\ calls[c].pc = "extract"
    /\ LET me == calls[c]
           request_query == extract_request_query(endpoint, me.request)
           request_body_value == extract_request_body(endpoint, me.request)
       IN calls' = store(calls, c,
                     IF has_path_fields(endpoint) /\ Len(me.request.uri.path) < 1
                     THEN [me EXCEPT !.pc = "done",
                                     !.result = Panic("byte index 1 is out of bounds")]
                     ELSE IF request_query.tag # "Ok"
                     THEN [me EXCEPT !.pc = "done", !.result = request_query]
                     ELSE IF request_body_value.tag # "Ok"
                     THEN [me EXCEPT !.pc = "done", !.result = request_body_value]
                     ELSE [me EXCEPT !.pc = "init",
                                     !.acc = [request_query |-> request_query.value,
                                              request_body |-> request_body_value.value]])
    /\ ConcUnchanged

\* Ok(Self { #parse_request_path #parse_request_query #parse_request_headers
\* #parse_request_body })
FromInit(c) ==
    /\ calls[c].pc = "init"
    /\ LET me == calls[c]
           path == parse_request_path(endpoint, me.request,
                                      Split(Tail(me.request.uri.path), 47), 1, NoFields)
           headers == parse_request_headers(header_fields(endpoint), me.request, 1, NoFields)
       IN calls' = store(calls, c,
                     [me EXCEPT !.pc = "done",
                                !.result =
                                    IF path.tag # "Ok" THEN path
                                    ELSE IF headers.tag # "Ok" THEN headers
                                    ELSE Ok(Merge(Merge(path.value,
                                                        parse_request_query(endpoint,
                                                            me.acc.request_query)),
                                                  Merge(headers.value,
                                                        parse_request_body(endpoint, me.request,
                                                            me.acc.request_body))))])
    /\ ConcUnchanged

ConcNext ==
    \E c \in Calls :
        \/ IntoStart(c) \/ IntoBuilder(c) \/ IntoHeaders(c) \/ IntoBody(c)
        \/ FromStart(c) \/ FromMethod(c) \/ FromExtract(c) \/ FromInit(c)

ConcSpec == ConcInit /\ [][ConcNext]_vars

(***************************************************************************)
(* Conversions outside the macro: identifiers and push rules               *)
(***************************************************************************)

\* while a conversion is exercised no endpoint is expanded or called
MacroAtRest ==
    /\ endpoint = Endpoints[1]
    /\ pc = "declared"
    /\ impls = {}
    /\ origin = "none"
    /\ self = NoFields
    /\ token = None
    /\ baseUrl = <<>>
    /\ wire = NoRequest
    /\ encRes = NoResult
    /\ decRes = NoResult
    /\ calls = [c \in Calls |-> IdleCall]

MacroUnchanged ==
    UNCHANGED <<endpoint, pc, impls, origin, self, token, baseUrl, wire, encRes, decRes, calls>>

\* ruma_identifiers::Error, by variant name
IdError(variant_name) == [type |-> "ruma_identifiers::Error", variant |-> variant_name]

\* the bytes '!' and '#'
Sigils == {33, 35}

\* a valid homeserver host: here a non-empty run of letters (no port, no dots)
server_name_valid(s) == s # <<>> /\ \A i \in 1..Len(s) : s[i] \in 97..122

\* ruma_identifiers_validation::room_id_or_alias_id::validate: the leading
\* sigil, the localpart, a literal colon and a valid homeserver host; the value
\* is the zero-based index of the first colon
validate(s) ==
    IF s = <<>> \/ s[1] \notin Sigils THEN Err(IdError("MissingLeadingSigil"))
    ELSE IF Find(s, 58, 1) = 0 THEN Err(IdError("MissingDelimiter"))
    ELSE IF ~server_name_valid(SubSeq(s, Find(s, 58, 1) + 1, Len(s)))
         THEN Err(IdError("InvalidServerName"))
    ELSE Ok(Find(s, 58, 1) - 1)

\* S::into() -> Box<str> with one byte of the string lost
into_box_str_Truncated(s) == IF s = <<>> THEN s ELSE SubSeq(s, 1, Len(s) - 1)

\* S::into() -> Box<str>: the same bytes in a new allocation
into_box_str(s) == s

\* fn try_from(room_id_or_alias_id: S) -> Result<RoomIdOrAliasId, crate::Error>
RoomIdOrAliasId_try_from(s) ==
    LET colon_idx == validate(s)
    IN IF colon_idx.tag # "Ok" THEN colon_idx
       ELSE Ok([full_id |-> into_box_str(s), colon_idx |-> colon_idx.value])

\* AsRef<str> for RoomIdOrAliasId (common_impls!)
as_ref(id) == id.full_id

\* RoomIdOrAliasId::variant: the outcomes the call can have; with any other
\* first byte (or none) it runs into unreachable_unchecked, whose behaviour is
\* undefined
variant(id) ==
    IF id.full_id # <<>> /\ id.full_id[1] = 33 THEN {"RoomId"}
    ELSE IF id.full_id # <<>> /\ id.full_id[1] = 35 THEN {"RoomAliasId"}
    ELSE {"RoomId", "RoomAliasId", "Undefined"}

\* the strings handed to try_from: every string of at most MaxIdLen bytes
\* over '!', '#', ':' and 'a'
MaxIdLen == 4

IdBytes == {33, 35, 58, 97}

IdStrings == UNION {[1..n -> IdBytes] : n \in 0..MaxIdLen}

IdInit ==
    /\ MacroAtRest
    /\ \E s \in IdStrings : conv = [op |-> "input", input |-> s, result |-> NoResult]

\* RoomIdOrAliasId::try_from(s)
IdTryFrom ==
    /\ conv.op = "input"
    /\ conv' = [conv EXCEPT !.op = "try_from", !.result = RoomIdOrAliasId_try_from(conv.input)]
    /\ MacroUnchanged

\* is_room_id / is_room_alias_id / a conversion to Box<RoomId> asks the
\* constructed identifier for its variant
IdVariant ==
    /\ conv.op = "try_from"
    /\ conv.result.tag = "Ok"
    /\ \E v \in variant(conv.result.value) :
         conv' = [conv EXCEPT !.op = "variant",
                              !.result = Ok([of |-> conv.result.value, is |-> v])]
    /\ MacroUnchanged

IdNext == IdTryFrom \/ IdVariant

IdSpec == IdInit /\ [][IdNext]_vars

\* r0::push::PushRule
PushRule(actions, default, enabled, rule_id, conditions, pattern) ==
    [type |-> "PushRule", actions |-> actions, default |-> default, enabled |-> enabled,
     rule_id |-> rule_id, conditions |-> conditions, pattern |-> pattern]

\* ruma_common::push::PatternedPushRule, as PushRule::from destructures it
PatternedPushRule(actions, default, enabled, rule_id, pattern) ==
    [type |-> "PatternedPushRule", actions |-> actions, default |-> default,
     enabled |-> enabled, rule_id |-> rule_id, pattern |-> pattern]

\* ruma_common::push::ConditionalPushRule, as PushRule::from destructures it
ConditionalPushRule(actions, default, enabled, rule_id, conditions) ==
    [type |-> "ConditionalPushRule", actions |-> actions, default |-> default,
     enabled |-> enabled, rule_id |-> rule_id, conditions |-> conditions]

\* PatternedPushRuleInit { .. }.into(): the rule with the initialiser's fields
PatternedPushRuleInit_into(init) ==
    PatternedPushRule(init.actions, init.default, init.enabled, init.rule_id, init.pattern)

\* ConditionalPushRuleInit { .. }.into(): the rule with the initialiser's fields
ConditionalPushRuleInit_into(init) ==
    ConditionalPushRule(init.actions, init.default, init.enabled, init.rule_id,
                        init.conditions)

MissingPatternError == [type |-> "MissingPatternError"]

MissingConditionsError == [type |-> "MissingConditionsError"]

\* impl From<PatternedPushRule> for PushRule that leaves the pattern out
PushRule_from_PatternedPushRule_NoPattern(push_rule) ==
    PushRule(push_rule.actions, push_rule.default, push_rule.enabled, push_rule.rule_id,
             None, None)

\* impl From<PatternedPushRule> for PushRule
PushRule_from_PatternedPushRule(push_rule) ==
    PushRule(push_rule.actions, push_rule.default, push_rule.enabled, push_rule.rule_id,
             None, Some(push_rule.pattern))

\* impl From<ConditionalPushRule> for PushRule
PushRule_from_ConditionalPushRule(push_rule) ==
    PushRule(push_rule.actions, push_rule.default, push_rule.enabled, push_rule.rule_id,
             Some(push_rule.conditions), None)

\* impl TryFrom<PushRule> for PatternedPushRule
PatternedPushRule_try_from(push_rule) ==
    IF push_rule.pattern.some
    THEN Ok(PatternedPushRuleInit_into(
                [actions |-> push_rule.actions, default |-> push_rule.default,
                 enabled |-> push_rule.enabled, rule_id |-> push_rule.rule_id,
                 pattern |-> push_rule.pattern.v]))
    ELSE Err(MissingPatternError)

\* impl TryFrom<PushRule> for ConditionalPushRule
ConditionalPushRule_try_from(push_rule) ==
    IF push_rule.conditions.some
    THEN Ok(ConditionalPushRuleInit_into(
                [actions |-> push_rule.actions, default |-> push_rule.default,
                 enabled |-> push_rule.enabled, rule_id |-> push_rule.rule_id,
                 conditions |-> push_rule.conditions.v]))
    ELSE Err(MissingConditionsError)

\* how many entries of each pool of push-rule values are used
NumRuleIds == 2
NumPatterns == 2
NumConditionLists == 2

\* Vec<Action>: none, or notify alone
ActionLists == { <<>>, <<"notify">> }

\* ".m.rule.master", "a", ""
RuleIdPool == << <<46, 109>>, <<97>>, <<>> >>

\* "a*", "", "*"
PatternPool == << <<97, 42>>, <<>>, <<42>> >>

\* Vec<PushCondition>: a rule with no conditions always matches
ConditionListPool == << <<"event_match">>, <<>>, <<"event_match", "room_member_count">> >>

RuleIds == {RuleIdPool[i] : i \in 1..NumRuleIds}

Patterns == {PatternPool[i] : i \in 1..NumPatterns}

ConditionLists == {ConditionListPool[i] : i \in 1..NumConditionLists}

PushRules ==
    {PushRule(a, d, e, r, c, p) :
        a \in ActionLists, d \in BOOLEAN, e \in BOOLEAN, r \in RuleIds,
        c \in {None} \cup {Some(l) : l \in ConditionLists},
        p \in {None} \cup {Some(q) : q \in Patterns}}

PatternedPushRules ==
    {PatternedPushRule(a, d, e, r, p) :
        a \in ActionLists, d \in BOOLEAN, e \in BOOLEAN, r \in RuleIds, p \in Patterns}

ConditionalPushRules ==
    {ConditionalPushRule(a, d, e, r, c) :
        a \in ActionLists, d \in BOOLEAN, e \in BOOLEAN, r \in RuleIds,
        c \in ConditionLists}

\* the rule in hand was not made from another rule
NoRule == [type |-> "none"]

\* a rule is in hand: a PushRule as deserialized from a response, or a
\* patterned or conditional rule of the caller
PushInit ==
    /\ MacroAtRest
    /\ \E r \in PushRules \cup PatternedPushRules \cup ConditionalPushRules :
         conv = [op |-> "input", input |-> [rule |-> r, source |-> NoRule],
                 result |-> NoResult]

\* PushRule::from(patterned_push_rule)
PushRuleFromPatterned ==
    /\ conv.op = "input"
    /\ conv.input.rule.type = "PatternedPushRule"
    /\ conv' = [conv EXCEPT !.input = [rule |-> PushRule_from_PatternedPushRule(@.rule),
                                       source |-> @.rule]]
    /\ MacroUnchanged

\* PushRule::from(conditional_push_rule)
PushRuleFromConditional ==
    /\ conv.op = "input"
    /\ conv.input.rule.type = "ConditionalPushRule"
    /\ conv' = [conv EXCEPT !.input = [rule |-> PushRule_from_ConditionalPushRule(@.rule),
                                       source |-> @.rule]]
    /\ MacroUnchanged

\* PatternedPushRule::try_from(push_rule)
TryIntoPatterned ==
    /\ conv.op = "input"
    /\ conv.input.rule.type = "PushRule"
    /\ conv' = [conv EXCEPT !.op = "PatternedPushRule::try_from",
                            !.result = PatternedPushRule_try_from(conv.input.rule)]
    /\ MacroUnchanged

\* ConditionalPushRule::try_from(push_rule)
TryIntoConditional ==
    /\ conv.op = "input"
    /\ conv.input.rule.type = "PushRule"
    /\ conv' = [conv EXCEPT !.op = "ConditionalPushRule::try_from",
                            !.result = ConditionalPushRule_try_from(conv.input.rule)]
    /\ MacroUnchanged

PushNext ==
    PushRuleFromPatterned \/ PushRuleFromConditional \/ TryIntoPatterned \/ TryIntoConditional

PushSpec == PushInit /\ [][PushNext]_vars

(***************************************************************************)
(* Properties                                                              *)
(***************************************************************************)

MethodOk == wire.method = endpoint.method

\* the result without the wire request an error carries
Outcome(res) ==
    [tag |-> res.tag, value |-> res.value,
     cause |-> IF res.error.type = "Deserialization" THEN res.error.inner ELSE res.error]

\* C1: decoding the wire request that try_into_http_request built from a typed
\* request R succeeds and returns a value equal to R, for every shape of endpoint.
C1_RoundTrip ==
    (pc = "decoded" /\ origin = "client") => decRes = Ok(self)

\* C2: a wire request whose method is not the endpoint's decodes to the
\* method-mismatch error carrying the expected and the received method, whatever
\* else is wrong with the request.
C2_MethodMismatch ==
    (pc = "decoded" /\ wire.method # endpoint.method)
        => decRes = Err(MethodMismatch(endpoint.method, wire.method))

\* a request with the wrong method whose path, query and body are each unusable too
C2_Witness ==
    /\ pc = "decoded"
    /\ endpoint.name = "mixed"
    /\ wire.method = "DELETE"
    /\ wire.uri.path = <<47>>
    /\ wire.uri.query = Some(<<114, 61, 49, 38, 114, 61, 50>>)
    /\ wire.body = << Tok("{", <<>>), Tok(",", <<>>) >>
    /\ decRes.error = MethodMismatch("PUT", "DELETE")

AllBodyFieldsOptional(ep) ==
    /\ has_body_fields(ep)
    /\ \A i \in 1..Len(ep.fields) : ep.fields[i].kind = "Body" /\ ep.fields[i].ty = "OptString"

\* C3: for an endpoint with Body or NewtypeBody fields, a zero-length body decodes
\* to the same value or error as the body `{}` in an otherwise equal request, and
\* an endpoint whose fields are all optional Body fields decodes a body-less
\* request of its method successfully.
C3_EmptyBodyIsEmptyObject ==
    (/\ pc = "decoded"
     /\ wire.body = <<>>
     /\ (has_body_fields(endpoint) \/ newtype_body_field(endpoint).some))
        => /\ Outcome(decRes)
                = Outcome(try_from_http_request(endpoint, [wire EXCEPT !.body = EmptyObject]))
           /\ (AllBodyFieldsOptional(endpoint) /\ MethodOk) => decRes.tag = "Ok"

C3_Witness ==
    /\ pc = "decoded"
    /\ endpoint.name = "body_optional"
    /\ MethodOk
    /\ wire.body = <<>>
    /\ decRes = Ok([n \in {f_c} |-> None])

\* C4: try_from_http_request returns, for every wire request, either a typed value
\* with every declared field set or an error; it never aborts.
C4_DecodeTotal ==
    pc = "decoded"
        => \/ decRes.tag = "Err"
           \/ decRes.tag = "Ok" /\ DOMAIN decRes.value = FieldNames(endpoint)

HexDigits == <<48, 49, 50, 51, 52, 53, 54, 55, 56, 57, 65, 66, 67, 68, 69, 70>>

\* s with every byte outside [A-Za-z0-9] written as %XY
RECURSIVE EncodedForm(_)
EncodedForm(s) ==
    IF s = <<>> THEN <<>>
    ELSE (IF Head(s) \in (48..57) \cup (65..90) \cup (97..122) THEN <<Head(s)>>
          ELSE <<37, HexDigits[(Head(s) \div 16) + 1], HexDigits[(Head(s) % 16) + 1]>>)
         \o EncodedForm(Tail(s))

\* the template with each ":name" segment replaced by the encoded string form of
\* the field called name, the other segments as they are
RenderedTemplate(ep, this) ==
    LET segs == Split(Tail(ep.path), 47)
        Seg(g) == IF StartsWith(g, 58)
                  THEN EncodedForm(to_string(field_named(ep, Tail(g)).ty, this[Tail(g)]))
                  ELSE g
    IN <<47>> \o Join([k \in 1..Len(segs) |-> Seg(segs[k])], <<47>>)

\* "/a/:x/b/:y", {x: "foo bar", y: 42}, "/a/foo%20bar/b/42"
ExampleTemplate == <<47, 97, 47, 58, 120, 47, 98, 47, 58, 121>>

ExampleRequest == Merge([n \in {f_x} |-> <<102, 111, 111, 32, 98, 97, 114>>], [n \in {f_y} |-> 42])

ExamplePath == <<47, 97, 47, 102, 111, 111, 37, 50, 48, 98, 97, 114, 47, 98, 47, 52, 50>>

\* C5: the path try_into_http_request renders is the template with each
\* placeholder replaced by the field's string form, every byte outside [A-Za-z0-9]
\* percent-encoded, and the static segments unchanged; "/a/:x/b/:y" with
\* x = "foo bar", y = 42 gives "/a/foo%20bar/b/42", which decodes to the same x, y.
C5_PathRendering ==
    /\ (pc \in {"encoded", "failed"} /\ has_path_fields(endpoint))
           => request_path_string(endpoint, self) = RenderedTemplate(endpoint, self)
    /\ (pc = "encoded" /\ has_path_fields(endpoint))
           => wire.uri.path = RenderedTemplate(endpoint, self)
    /\ (pc = "encoded" /\ endpoint.path = ExampleTemplate /\ self = ExampleRequest)
           => wire.uri.path = ExamplePath
    /\ (pc = "decoded" /\ endpoint.path = ExampleTemplate /\ MethodOk
            /\ wire.uri.path = ExamplePath)
           => decRes = Ok(ExampleRequest)

C5_Witness ==
    /\ pc = "decoded"
    /\ origin = "client"
    /\ endpoint.name = "path_only"
    /\ self = ExampleRequest
    /\ wire.uri.path = ExamplePath
    /\ decRes = Ok(ExampleRequest)

\* the segments of a rendered or received path
Segments(path) == Split(Tail(path), 47)

\* the placeholders of the endpoint's template, by position in the template
Placeholders(ep) == 1..Len(path_fields(ep))

\* C6 (as claimed): the k-th placeholder of the template is encoded from, and
\* decoded into, the k-th declared Path field, whatever the placeholder is called.
C6_PositionalBinding ==
    /\ (pc = "encoded" /\ has_path_fields(endpoint))
           => \A k \in Placeholders(endpoint) :
                  LET f == fields_of_kind(endpoint, "Path")[k]
                  IN Segments(wire.uri.path)[path_fields(endpoint)[k].i + 1]
                         = EncodedForm(to_string(f.ty, self[f.name]))
    /\ (pc = "decoded" /\ decRes.tag = "Ok" /\ has_path_fields(endpoint))
           => \A k \in Placeholders(endpoint) :
                  LET f == fields_of_kind(endpoint, "Path")[k]
                  IN try_from(f.ty, percent_decode(
                         Segments(wire.uri.path)[path_fields(endpoint)[k].i + 1]))
                         = Ok(decRes.value[f.name])

\* C6 (amended): each placeholder ":name" is encoded from, and decoded into, the
\* Path field called name, whatever the order the Path fields are declared in.
C6_NamedBinding ==
    /\ (pc = "encoded" /\ has_path_fields(endpoint))
           => \A k \in Placeholders(endpoint) :
                  LET f == field_named(endpoint, path_fields(endpoint)[k].path_var)
                  IN /\ f.kind = "Path"
                     /\ Segments(wire.uri.path)[path_fields(endpoint)[k].i + 1]
                            = EncodedForm(to_string(f.ty, self[f.name]))
    /\ (pc = "decoded" /\ decRes.tag = "Ok" /\ has_path_fields(endpoint))
           => \A k \in Placeholders(endpoint) :
                  LET f == field_named(endpoint, path_fields(endpoint)[k].path_var)
                  IN try_from(f.ty, percent_decode(
                         Segments(wire.uri.path)[path_fields(endpoint)[k].i + 1]))
                         = Ok(decRes.value[f.name])

\* the Path fields are declared y, x and the template names x, then y
C6_Witness ==
    /\ pc = "decoded"
    /\ origin = "client"
    /\ endpoint.name = "path_reordered"
    /\ fields_of_kind(endpoint, "Path")[1].name = f_y
    /\ path_fields(endpoint)[1].path_var = f_x
    /\ self = ExampleRequest
    /\ wire.uri.path = ExamplePath
    /\ decRes = Ok(ExampleRequest)

\* the decoding gets as far as the Path fields: the method matches, the path is
\* not empty, and the query and the body decode
PathStepReached(ep, request) ==
    /\ request.method = ep.method
    /\ has_path_fields(ep)
    /\ Len(request.uri.path) >= 1
    /\ extract_request_query(ep, request).tag = "Ok"
    /\ extract_request_body(ep, request).tag = "Ok"

\* what is wrong with the segment of the k-th placeholder: "Utf8", "Parse", or
\* "" when it decodes and parses
SegmentDefect(ep, request, k) ==
    LET f == field_named(ep, path_fields(ep)[k].path_var)
        bytes == percent_decode(Segments(request.uri.path)[path_fields(ep)[k].i + 1])
    IN IF ~IsUtf8(bytes) THEN "Utf8"
       ELSE IF f.ty = "UInt" /\ ~(bytes # <<>> /\ \A i \in 1..Len(bytes) : bytes[i] \in 48..57)
            THEN "Parse"
            ELSE ""

\* the first placeholder, in template order, whose segment is present and does not
\* decode or parse, all earlier ones being present too; 0 if there is none
FirstBadPlaceholder(ep, request) ==
    LET present(k) == path_fields(ep)[k].i + 1 <= Len(Segments(request.uri.path))
        bad(k) == /\ \A j \in 1..k : present(j)
                  /\ SegmentDefect(ep, request, k) # ""
                  /\ \A j \in 1..(k - 1) : SegmentDefect(ep, request, j) = ""
    IN IF \E k \in Placeholders(ep) : bad(k)
       THEN CHOOSE k \in Placeholders(ep) : bad(k)
       ELSE 0

HeaderStepReached(ep, request) ==
    /\ request.method = ep.method
    /\ has_header_fields(ep)
    /\ has_path_fields(ep) => Len(request.uri.path) >= 1
    /\ extract_request_query(ep, request).tag = "Ok"
    /\ extract_request_body(ep, request).tag = "Ok"
    /\ parse_request_path(ep, request, Segments(request.uri.path), 1, NoFields).tag = "Ok"

\* what the header contract holds against the header of a Header field: "Missing" for a
\* required field without its header, "NotUtf8" for a header whose bytes are not
\* UTF-8, "" otherwise
HeaderDefect(f, request) ==
    IF f.header \in DOMAIN request.headers
    THEN IF IsUtf8(request.headers[f.header]) THEN "" ELSE "NotUtf8"
    ELSE IF f.ty = "OptString" THEN "" ELSE "Missing"

\* the value the header contract gives a Header field whose header has no defect
HeaderExpected(f, request) ==
    IF f.header \in DOMAIN request.headers
    THEN IF f.ty = "OptString" THEN Some(request.headers[f.header])
         ELSE request.headers[f.header]
    ELSE None

\* C8 (as claimed): a Header field decodes to the header's string when the header
\* is present and valid UTF-8, and to "absent" when an optional field's header is
\* missing; a required field's missing header is a missing-header deserialization
\* error naming the header, and non-UTF-8 header bytes are a deserialization error.
C8_HeaderDecoding ==
    (pc = "decoded" /\ HeaderStepReached(endpoint, wire))
        => LET fs == header_fields(endpoint)
               bad == {k \in 1..Len(fs) : HeaderDefect(fs[k], wire) # ""}
           IN IF bad = {}
              THEN /\ decRes.tag = "Ok"
                   /\ \A k \in 1..Len(fs) :
                          decRes.value[fs[k].name] = HeaderExpected(fs[k], wire)
              ELSE LET f == fs[CHOOSE k \in bad : \A j \in bad : k <= j]
                   IN /\ decRes.tag = "Err"
                      /\ decRes.error.type = "Deserialization"
                      /\ HeaderDefect(f, wire) = "Missing"
                             => decRes.error.inner = Inner("MissingHeader", f.header)

\* the Header fields whose value is sent
SentHeaderFields(ep, this) ==
    {k \in 1..Len(header_fields(ep)) :
        LET f == header_fields(ep)[k]
        IN f.ty # "OptString" \/ this[f.name].some}

\* the string a sent Header field carries
SentHeaderValue(f, this) ==
    IF f.ty = "OptString" THEN this[f.name].v ELSE this[f.name]

\* every header value the call has to build is one http accepts
HeaderValuesAccepted(ep, this) ==
    \A k \in SentHeaderFields(ep, this) :
        header_value_from_str_ok(SentHeaderValue(header_fields(ep)[k], this))

\* the endpoint asks for no token, or a token that fits in a header is supplied
AuthenticationSupplied(ep, access_token) ==
    ep.authentication = "AccessToken"
        => access_token.some /\ header_value_from_str_ok(bearer \o access_token.v)

\* C9 (as claimed): the wire request carries a Header field's header exactly
\* when the field is required or is optional with a value, with the field's
\* value; an optional field with no value emits no header and causes no error.
C9_HeaderEmission ==
    /\ pc = "encoded"
           => \A k \in 1..Len(header_fields(endpoint)) :
                  LET f == header_fields(endpoint)[k]
                  IN IF k \in SentHeaderFields(endpoint, self)
                     THEN /\ f.header \in DOMAIN wire.headers
                          /\ wire.headers[f.header] = SentHeaderValue(f, self)
                     ELSE f.header \notin DOMAIN wire.headers
    /\ (pc \in {"encoded", "failed"} /\ HeaderValuesAccepted(endpoint, self)
            /\ AuthenticationSupplied(endpoint, token))
           => pc = "encoded" /\ encRes.tag = "Ok"

\* a required header sent and an optional one left out
C9_Witness ==
    /\ pc = "encoded"
    /\ endpoint.name = "header_only"
    /\ ~self[f_o].some
    /\ "USER_AGENT" \notin DOMAIN wire.headers
    /\ "LOCATION" \in DOMAIN wire.headers
    /\ wire.headers["LOCATION"] = self[f_h]

\* the header names written while encoding: Content-Type by the builder, one per
\* sent Header field, Authorization for an AccessToken endpoint
WrittenHeaderNames(ep, this) ==
    {"CONTENT_TYPE"}
        \cup {header_fields(ep)[k].header : k \in SentHeaderFields(ep, this)}
        \cup (IF ep.authentication = "AccessToken" THEN {"AUTHORIZATION"} ELSE {})

\* the value left under a header name: that of the last write to it
WrittenHeaderValue(ep, this, access_token, h) ==
    LET sent == {k \in SentHeaderFields(ep, this) : header_fields(ep)[k].header = h}
    IN IF h = "AUTHORIZATION" /\ ep.authentication = "AccessToken"
       THEN bearer \o access_token.v
       ELSE IF sent # {}
            THEN SentHeaderValue(header_fields(ep)[CHOOSE k \in sent : \A j \in sent : j <= k],
                                 this)
            ELSE application_json

\* C9 (amended): encode-request writes a Header field's named header, with the
\* field's value, exactly when the field is required or is optional with a value;
\* an optional field with no value writes nothing and causes no error.  The wire
\* request carries exactly the headers written, each with the value of the last
\* write: the header of an unset optional field is present only when something
\* else writes it (the default Content-Type, the bearer Authorization).
C9_HeaderWrites ==
    /\ pc = "encoded"
           => /\ DOMAIN wire.headers = WrittenHeaderNames(endpoint, self)
              /\ \A h \in DOMAIN wire.headers :
                     wire.headers[h] = WrittenHeaderValue(endpoint, self, token, h)
    /\ (pc \in {"encoded", "failed"} /\ HeaderValuesAccepted(endpoint, self)
            /\ AuthenticationSupplied(endpoint, token))
           => pc = "encoded" /\ encRes.tag = "Ok"

BodyMemberToken(f, this) ==
    IF f.ty = "OptString"
    THEN IF this[f.name].some THEN Tok("str", this[f.name].v) ELSE Tok("null", <<>>)
    ELSE Tok("str", this[f.name])

\* C11: the body of the wire request is the RawBody field's bytes when one is
\* declared; otherwise the JSON encoding of the NewtypeBody field's value itself,
\* or of the object of the Body fields, when such fields are declared; and
\* zero-length when the endpoint declares no body field of any kind.
C11_BodyByShape ==
    pc = "encoded"
        => LET raw == fields_of_kind(endpoint, "NewtypeRawBody")
               newtype == fields_of_kind(endpoint, "NewtypeBody")
               bs == fields_of_kind(endpoint, "Body")
           IN IF raw # <<>> THEN wire.body = self[raw[1].name]
              ELSE IF newtype # <<>> THEN wire.body = << Tok("str", self[newtype[1].name]) >>
              ELSE IF bs # <<>>
                   THEN /\ IsObject(wire.body)
                        /\ Len(ObjectMembers(wire.body)) = Len(bs)
                        /\ \A k \in 1..Len(bs) :
                               ObjectMembers(wire.body)[k]
                                   = <<bs[k].name, BodyMemberToken(bs[k], self)>>
              ELSE wire.body = <<>>

\* a RawBody field whose bytes are the whole body
C11_Witness ==
    /\ pc = "encoded"
    /\ endpoint.name = "raw_body"
    /\ self[f_w] # <<>>
    /\ wire.body = self[f_w]

\* the endpoint declares a QueryMap field or discrete Query fields
DeclaresQuery(ep) ==
    \E i \in 1..Len(ep.fields) : ep.fields[i].kind \in {"Query", "QueryMap"}

\* every discrete Query field of the endpoint is optional
AllQueryFieldsOptional(ep) ==
    \A i \in 1..Len(ep.fields) :
        ep.fields[i].kind = "Query" => ep.fields[i].ty = "OptString"

\* C12: on an endpoint with a QueryMap field or Query fields, a wire request with
\* no query string decodes as one with an empty query string does, and the query
\* step fails only for a required Query field the empty form lacks; on an endpoint
\* with no query field the encoded URI has no query string.
C12_AbsentQuery ==
    /\ (pc = "decoded" /\ DeclaresQuery(endpoint) /\ ~wire.uri.query.some)
           => /\ Outcome(decRes)
                    = Outcome(try_from_http_request(endpoint,
                                  [wire EXCEPT !.uri.query = Some(<<>>)]))
              /\ (decRes.error.type = "Deserialization"
                      /\ decRes.error.inner.kind = "Query")
                     => /\ ~AllQueryFieldsOptional(endpoint)
                        /\ decRes.error.inner.detail = "missing field"
              /\ (decRes.tag = "Ok" /\ query_map_field(endpoint).some)
                     => decRes.value[query_map_field(endpoint).v.name] = <<>>
    /\ (pc = "encoded" /\ ~DeclaresQuery(endpoint))
           => ~wire.uri.query.some

\* a request without a query string decoded into an empty QueryMap
C12_Witness ==
    /\ pc = "decoded"
    /\ origin = "network"
    /\ endpoint.name = "map_query"
    /\ ~wire.uri.query.some
    /\ decRes.tag = "Ok"
    /\ decRes.value[f_m] = <<>>

\* the endpoint declares a field of a body kind
DeclaresBody(ep) ==
    \E i \in 1..Len(ep.fields) : ep.fields[i].kind \in {"Body", "NewtypeBody", "NewtypeRawBody"}

\* the Header fields bound to Content-Type whose value is sent
SentContentTypeFields(ep, this) ==
    {k \in SentHeaderFields(ep, this) : header_fields(ep)[k].header = "CONTENT_TYPE"}

\* C13 (as claimed): every wire request encoded for an endpoint that declares a
\* body field carries "Content-Type: application/json".
C13_JsonContentType ==
    (pc = "encoded" /\ DeclaresBody(endpoint))
        => /\ "CONTENT_TYPE" \in DOMAIN wire.headers
           /\ wire.headers["CONTENT_TYPE"] = application_json

\* C13 (amended): every wire request encoded for an endpoint that declares a body
\* field carries a Content-Type header; its value is "application/json" unless a
\* Header field bound to Content-Type sends a value, which then replaces it.
C13_ContentTypeDefault ==
    (pc = "encoded" /\ DeclaresBody(endpoint))
        => LET sent == SentContentTypeFields(endpoint, self)
           IN /\ "CONTENT_TYPE" \in DOMAIN wire.headers
              /\ wire.headers["CONTENT_TYPE"]
                     = IF sent = {} THEN application_json
                       ELSE SentHeaderValue(
                                header_fields(endpoint)[CHOOSE k \in sent : \A j \in sent : j <= k],
                                self)

\* an endpoint with a Content-Type Header field that sends no value
C13_Witness ==
    /\ pc = "encoded"
    /\ endpoint.name = "upload"
    /\ DeclaresBody(endpoint)
    /\ ~self[f_t].some
    /\ wire.headers["CONTENT_TYPE"] = application_json

\* the causes a deserialization error wraps
WireErrorCauses == {"MissingHeader", "ToStr", "Utf8", "Parse", "Json", "Query"}

\* C14 (as claimed): every error decode-request returns, the method mismatch
\* included, carries the original wire request together with the cause.
C14_ErrorCarriesRequest ==
    (pc = "decoded" /\ decRes.tag = "Err")
        => /\ "http_request" \in DOMAIN decRes.error
           /\ decRes.error.http_request = wire

\* C14 (amended): every deserialization error decode-request returns (missing
\* required header, header that is not a string, path segment that is not UTF-8
\* or does not parse, malformed JSON body, undecodable query) carries the original
\* wire request together with the cause; the method-mismatch error carries the
\* expected and the received method and not the wire request.
C14_DeserializationErrorCarriesRequest ==
    (pc = "decoded" /\ decRes.tag = "Err")
        => IF MethodOk
           THEN /\ decRes.error.type = "Deserialization"
                /\ decRes.error.http_request = wire
                /\ decRes.error.inner.kind \in WireErrorCauses
                /\ decRes.value = NoValue
           ELSE /\ DOMAIN decRes.error = {"type", "expected", "received"}
                /\ decRes.error.type = "MethodMismatch"
                /\ decRes.error.expected = endpoint.method
                /\ decRes.error.received = wire.method

\* a malformed JSON body refused with the request it came in
C14_Witness ==
    /\ pc = "decoded"
    /\ origin = "network"
    /\ endpoint.name = "body_only"
    /\ MethodOk
    /\ decRes.tag = "Err"
    /\ decRes.error.inner.kind = "Json"
    /\ decRes.error.http_request = wire
    /\ wire.body # <<>>

\* the expansion produced the endpoint's procedures
Produced == pc \notin {"declared", "rejected"}

\* the declaration was never made callable: no procedure, no impl, no result
Blocked ==
    /\ pc \in {"declared", "rejected"}
    /\ impls = {}
    /\ encRes = NoResult
    /\ decRes = NoResult

\* how many fields of the given kinds the endpoint declares
CountKinds(ep, kinds) ==
    Cardinality({i \in 1..Len(ep.fields) : ep.fields[i].kind \in kinds})

PlaceholderCount(path) ==
    LET segs == Split(IF StartsWith(path, 47) THEN Tail(path) ELSE path, 47)
    IN Cardinality({k \in 1..Len(segs) : StartsWith(segs[k], 58)})

\* C16: procedures are produced only for an endpoint whose number of Path fields,
\* zero included, equals the number of placeholders of its path template.
C16_PathFieldCount ==
    Produced => path_field_count(endpoint) = PlaceholderCount(endpoint.path)

\* a template starts with '/' and has ':' only at the start of a segment
WellFormedTemplate(path) ==
    /\ StartsWith(path, 47)
    /\ \A i \in 1..Len(path) : path[i] = 58 => (i > 1 /\ path[i - 1] = 47)

\* C17: no procedure is produced for an endpoint whose path template is
\* malformed, whatever fields the endpoint declares.
C17_MalformedTemplateBlocked ==
    Produced => WellFormedTemplate(endpoint.path)

C19_NonAuthMarkers ==
    Produced
        => /\ "OutgoingNonAuthRequest" \in impls <=> endpoint.authentication = "None"
           /\ "IncomingNonAuthRequest" \in impls <=> endpoint.authentication = "None"
           /\ {"OutgoingRequest", "IncomingRequest"} \subseteq impls
           /\ encRes.tag = "Err"
                  => /\ encRes.error.type \in {"NeedsAuthentication", "Http"}
                     /\ encRes.error.type = "NeedsAuthentication"
                            => endpoint.authentication = "AccessToken"
           /\ decRes.tag = "Err"
                  => decRes.error.type \in {"MethodMismatch", "Deserialization"}

\* a request decoded on an endpoint that has no marker
C19_Witness ==
    /\ pc = "decoded"
    /\ endpoint.authentication = "ServerSignatures"
    /\ "IncomingNonAuthRequest" \notin impls
    /\ "OutgoingNonAuthRequest" \notin impls
    /\ decRes.tag = "Ok"

\* what a finished call returns when it runs alone on its arguments
AloneResult(call) ==
    IF call.kind = "into"
    THEN try_into_http_request(endpoint, call.this, call.base_url, call.access_token)
    ELSE try_from_http_request(endpoint, call.arg)

\* C20: whatever the interleaving of the steps of concurrent
\* try_into_http_request and try_from_http_request calls on one endpoint, each
\* call returns what it returns when it runs alone, and no step of a call changes
\* the endpoint's metadata or what another call owns.
C20_CallsIsolated ==
    /\ [](\A c \in Calls : calls[c].pc = "done" => calls[c].result = AloneResult(calls[c]))
    /\ [][/\ endpoint' = endpoint
          /\ \A c, d \in Calls : (c # d /\ calls'[c] # calls[c]) => calls'[d] = calls[d]]_vars

\* an encoding and a decoding with other arguments, both finished, after the
\* decoding started while the encoding was under way
C20_Witness ==
    /\ calls["a"].kind = "into"
    /\ calls["b"].kind = "from"
    /\ calls["a"].pc = "done"
    /\ calls["b"].pc = "done"
    /\ calls["a"].result.tag = "Ok"
    /\ calls["b"].result.tag = "Ok"
    /\ calls["a"].result.value # calls["b"].arg

C22_PushRuleConversions ==
    LET r == conv.input.rule
    IN /\ conv.op = "PatternedPushRule::try_from" =>
            /\ conv.result.tag = "Ok" <=> r.pattern.some
            /\ r.pattern.some =>
                 conv.result.value =
                     PatternedPushRule(r.actions, r.default, r.enabled, r.rule_id,
                                       r.pattern.v)
            /\ ~r.pattern.some => conv.result = Err(MissingPatternError)
            /\ conv.input.source.type = "PatternedPushRule" =>
                 conv.result = Ok(conv.input.source)
       /\ conv.op = "ConditionalPushRule::try_from" =>
            /\ conv.result.tag = "Ok" <=> r.conditions.some
            /\ r.conditions.some =>
                 conv.result.value =
                     ConditionalPushRule(r.actions, r.default, r.enabled, r.rule_id,
                                         r.conditions.v)
            /\ ~r.conditions.some => conv.result = Err(MissingConditionsError)
            /\ conv.input.source.type = "ConditionalPushRule" =>
                 conv.result = Ok(conv.input.source)

\* a PushRule made from a patterned rule was converted back to it
C22_Witness ==
    /\ conv.op = "PatternedPushRule::try_from"
    /\ conv.input.source.type = "PatternedPushRule"
    /\ conv.input.source.pattern = <<97, 42>>
    /\ conv.input.source.actions = <<"notify">>
    /\ conv.result = Ok(conv.input.source)

\* C23: for an endpoint with a RawBody field, try_from_http_request assigns the
\* bytes of the wire body to that field as they are, with no JSON decoding: a
\* zero-length body gives a zero-length value (not `{}`), and a body that is
\* not valid JSON causes no error -- whether decoding succeeds, and the error it
\* returns otherwise, do not depend on the body.
C23_RawBodyVerbatim ==
    (pc = "decoded" /\ newtype_raw_body_field(endpoint).some)
        => LET f == newtype_raw_body_field(endpoint).v
               other == try_from_http_request(endpoint, [wire EXCEPT !.body = EmptyObject])
           IN /\ ~has_body_fields(endpoint) /\ ~newtype_body_field(endpoint).some
              /\ decRes.tag = "Ok" => decRes.value[f.name] = wire.body
              /\ (decRes.tag = "Ok" /\ wire.body = <<>>) => decRes.value[f.name] = <<>>
              /\ decRes.tag = other.tag
              /\ decRes.tag = "Err" =>
                   /\ Outcome(decRes).cause = Outcome(other).cause
                   /\ (decRes.error.type = "Deserialization"
                           => decRes.error.inner.kind # "Json")

\* a body that is not JSON, received from the network, became the field's value
C23_Witness ==
    /\ pc = "decoded"
    /\ origin = "network"
    /\ newtype_raw_body_field(endpoint).some
    /\ wire.body = << Tok("{", <<>>), Tok(",", <<>>) >>
    /\ decRes.tag = "Ok"
    /\ decRes.value[newtype_raw_body_field(endpoint).v.name] = wire.body

\* what is wrong with the path at the k-th placeholder: "Missing" when the path
\* has no segment at the placeholder's index, else the segment's defect
PathDefect(ep, request, k) ==
    IF path_fields(ep)[k].i + 1 > Len(Segments(request.uri.path)) THEN "Missing"
    ELSE SegmentDefect(ep, request, k)

\* the Header field's header taken on its own: its value, or the error it gives
HeaderAlone(f, request) == parse_request_headers(<<f>>, request, 1, NoFields)

\* the defects of a wire request in the order of the claim: the query string, the
\* JSON body, the placeholders' segments in template order, the Header fields'
\* headers in declaration order
DefectList(ep, request) ==
    LET ps == [k \in 1..Len(path_fields(ep)) |-> [step |-> "path", k |-> k]]
        hs == [k \in 1..Len(header_fields(ep)) |-> [step |-> "header", k |-> k]]
    IN (IF extract_request_query(ep, request).tag # "Ok"
        THEN << [step |-> "query", k |-> 0] >> ELSE <<>>)
       \o (IF extract_request_body(ep, request).tag # "Ok"
           THEN << [step |-> "body", k |-> 0] >> ELSE <<>>)
       \o SelectSeq(ps, LAMBDA d : PathDefect(ep, request, d.k) # "")
       \o SelectSeq(hs, LAMBDA d : HeaderAlone(header_fields(ep)[d.k], request).tag # "Ok")

\* res is the error of defect d and of no other
IsErrorOf(ep, request, d, res) ==
    CASE d.step = "query" -> res = extract_request_query(ep, request)
      [] d.step = "body" -> res = extract_request_body(ep, request)
      [] d.step = "path" ->
            /\ res.tag = "Err"
            /\ res.error.type = "Deserialization"
            /\ res.error.http_request = request
            /\ PathDefect(ep, request, d.k) # "Missing"
                   => res.error.inner.kind = PathDefect(ep, request, d.k)
      [] d.step = "header" -> res = HeaderAlone(header_fields(ep)[d.k], request)

\* C24: a wire request with the endpoint's method and several defects at once
\* decodes to exactly one error, that of the first defect in the order: query
\* string, JSON body, path segments in template order, headers in declaration
\* order; the later defects are not reported.
C24_FirstErrorInOrder ==
    (pc = "decoded" /\ MethodOk /\ Len(DefectList(endpoint, wire)) >= 2)
        => IsErrorOf(endpoint, wire, DefectList(endpoint, wire)[1], decRes)

\* the indexes, from one, of the template's segments that are placeholders
PlaceholderIndexes(ep) ==
    {j \in 1..Len(Segments(ep.path)) : StartsWith(Segments(ep.path)[j], 58)}

\* the paths that differ from path in segments that are not a placeholder's only:
\* any set of those segments replaced by "zz", and, when the path is as long as
\* the template, a further segment "e" at the end
PathVariants(ep, path) ==
    LET segs == Segments(path)
        others == {j \in 1..Len(segs) : j \notin PlaceholderIndexes(ep)}
        tails == IF Len(segs) >= Len(Segments(ep.path)) THEN { <<>>, << <<101>> >> }
                 ELSE { <<>> }
    IN { <<47>> \o Join([j \in 1..Len(segs) |-> IF j \in S THEN <<122, 122>> ELSE segs[j]]
                            \o extra, <<47>>) :
            S \in SUBSET others, extra \in tails }

\* C25: try_from_http_request reads the incoming path only at the indexes of the
\* template's placeholders: the other segments are not compared with the
\* template and the segments past the template's length are ignored, so a wire
\* request that differs from the decoded one only in such segments decodes to
\* the same value, or fails with the same cause.
C25_StaticSegmentsIgnored ==
    (pc = "decoded" /\ Len(wire.uri.path) >= 1)
        => \A p \in PathVariants(endpoint, wire.uri.path) :
               Outcome(try_from_http_request(endpoint, [wire EXCEPT !.uri.path = p]))
                   = Outcome(decRes)

\* a path whose other segments are not the template's, with a segment past the
\* template's end, decoded into the Path fields
C25_Witness ==
    /\ pc = "decoded"
    /\ endpoint.name = "path_only"
    /\ wire.uri.path = <<47, 122, 47, 120, 47, 122, 47, 55, 47, 101, 120, 116, 114, 97>>
    /\ <<47, 122, 122, 47, 120, 47, 122, 122, 47, 55, 47, 122, 122, 47, 101>>
           \in PathVariants(endpoint, wire.uri.path)
    /\ decRes.tag = "Ok"
    /\ decRes.value[f_x] = <<120>>
    /\ decRes.value[f_y] = 7

\* C26: whatever the values of the Path fields -- values containing '/', '%' or ':'
\* and the empty value included -- the path try_into_http_request renders has
\* exactly as many '/'-separated segments as the template, and the encoded value
\* of each placeholder's field is the segment at the index that
\* try_from_http_request reads for that placeholder.
C26_SegmentsAligned ==
    (pc = "encoded" /\ has_path_fields(endpoint))
        => /\ Len(Segments(wire.uri.path)) = Len(Segments(endpoint.path))
           /\ {path_fields(endpoint)[k].i + 1 : k \in Placeholders(endpoint)}
                  = PlaceholderIndexes(endpoint)
           /\ \A k \in Placeholders(endpoint) :
                  LET read == path_fields(endpoint)[k]
                      f == field_named(endpoint, Tail(Segments(endpoint.path)[read.i + 1]))
                  IN /\ read.path_var = f.name
                     /\ path_segment(Segments(wire.uri.path), read.i)
                            = EncodedForm(to_string(f.ty, self[f.name]))
           /\ \A j \in 1..Len(Segments(endpoint.path)) :
                  j \notin PlaceholderIndexes(endpoint)
                      => Segments(wire.uri.path)[j] = Segments(endpoint.path)[j]

\* a value made of '/', ':' and '%' rendered into one segment, behind a base URL
\* that ends in '/'
C26_Witness ==
    /\ pc = "encoded"
    /\ endpoint.name = "path_only"
    /\ self[f_x] = <<47, 58, 37, 52, 49>>
    /\ baseUrl = <<104, 116, 116, 112, 58, 47, 47, 104, 47>>
    /\ Len(Segments(wire.uri.path)) = 4
    /\ Segments(wire.uri.path)[2] = <<37, 50, 70, 37, 51, 65, 37, 50, 53, 52, 49>>

====
